---- MODULE Spec2Model ----
(***************************************************************************)
(* A model of the data-structure library: the chained hash table           *)
(* (hashtable.c), the doubly linked list (dlinkedlist.c) and the resource  *)
(* allocation graph (RAG.c) built on both.                                 *)
(*                                                                         *)
(* Pointers are modelled as positive integers naming heap cells, NULL as   *)
(* 0.  Each structure carries its own heap of cells (a function whose      *)
(* domain is the set of cells currently allocated); malloc takes the       *)
(* smallest unused name and free removes the cell from the domain.         *)
(* Caller-supplied callables (compare, hash) are modelled by what a        *)
(* contract-abiding callable does on composite keys; on an absent (NULL)   *)
(* key, which their contract does not cover, they either tolerate it or    *)
(* fault, and the table records which.                                     *)
(***************************************************************************)
EXTENDS Integers, Sequences, FiniteSets, TLC

VARIABLES
    ht,        \* the hash table under test (hashtable_t)
    abs,       \* ghost: the abstract value (map, sequence) the structure under
               \* test is meant to implement
    op,        \* ghost: the last operation performed, its arguments and result
    nops,      \* ghost: the number of operations performed so far
    aborted,   \* TRUE once the program has faulted (NULL handed to a callable)
    rag,       \* the resource allocation graph under test (RAG_t)
    dlist,     \* the doubly linked list under test (DLL_t)
    dll_ht,    \* the keyed list under test (DLL_HT_t)
    freed,     \* the calls made to the caller's free callables so far, in order
    stack      \* the stack under test (stack_t)

vars == <<ht, abs, op, nops, aborted, rag, dlist, dll_ht, freed, stack>>

(***************************************************************************)
(* Bounds of the model: the largest initial table size, and the number of  *)
(* operations a run of the table, of the graph, and of the graph built    *)
(* edge by edge, performs.  The keys and values the caller draws its       *)
(* arguments from are the finite sets Keys, Values, RagKeys, BuildKeys,    *)
(* Data and Handles below.                                                 *)
(***************************************************************************)
MaxInitSize == 2
MaxOps == 4
MaxRagOps == 3
MaxBuildOps == 4
MaxDllOps == 5
MaxKeyedOps == 4
MaxGrowOps == 3
MaxArgOps == 3
MaxStackOps == 4
MaxArrayLen == 2
MaxListOps == 5

(***************************************************************************)
(* Program constants.                                                      *)
(***************************************************************************)
NULL == 0
INITIAL_TABLE_SIZE == 49
MAX_LOAD_FACTOR == 1
GROWTH_FACTOR == 2

(***************************************************************************)
(* Keys.  A key object is a ckey_t: a type tag and an id; obj tells apart  *)
(* distinct key objects (allocations) holding the same type and id.        *)
(***************************************************************************)
type_t == {"PROCESS_T", "RESOURCE_T"}

ckey_t == [type : type_t, id : {1, 2}, obj : {1, 2}]

\* the key objects the caller holds: one per logical key, and further equal
\* copies of the first process key
Keys == {k \in ckey_t : k.obj = 1 \/ (k.id = 1 /\ k.type = "PROCESS_T")}

NullKey == [type |-> "NULL", id |-> 0, obj |-> 0]

\* the logical identity the caller's compare and hash are functions of
LKey(key) == <<key.type, key.id>>

LKeys == type_t \X {1, 2}

\* The hash function the caller supplies, a function of the logical key.  Its
\* values (0, 392, 4, 5) make three keys share a bucket at every table size up
\* to 4 and the two process keys share one at sizes 8 and 49.
hash_fn == [l \in LKeys |-> IF l[1] = "PROCESS_T" THEN 392 * (l[2] - 1) ELSE 3 + l[2]]

\* how the caller's compare, hash and free_key treat an absent key
NullModes == {"tolerate", "deref"}

\* the values a caller stores in a table
Values == {NULL, 1}

\* equality_fn: zero iff the two keys are logically equal
compare(a, b) == IF a.type = b.type /\ a.id = b.id THEN 0 ELSE 1

Min(S) == CHOOSE x \in S : \A y \in S : x <= y

\* malloc: a cell name not in use in this heap
Malloc(heap) == Min((1..(Cardinality(DOMAIN heap) + 1)) \ DOMAIN heap)

Free(heap, cell) == [c \in (DOMAIN heap) \ {cell} |-> heap[c]]

\* what is left of a structure that has been freed: no use of it is defined
Dead == [live |-> FALSE]

\* the calls fn(args[1]), fn(args[2]), ... of a free callable
Calls(fn, args) == [i \in DOMAIN args |-> [fn |-> fn, arg |-> args[i]]]

(***************************************************************************)
(* HashTable                                                               *)
(***************************************************************************)
_initialise_table(size) == [i \in 1..size |-> NULL]

ht_create(size, cmp, hash) ==
    [size |-> size, n_values |-> 0, compare |-> cmp, hash |-> hash,
     table |-> _initialise_table(size), nodes |-> <<>>]

\* ht->hash(key) for a present key
CallHash(t, key) == t.hash[LKey(key)]

ht_get_index(t, key) == CallHash(t, key) % t.size

\* The walk of ht_get_node down one bucket chain.  compare is called on every
\* entry's key, also on the NULL key of a cleared entry.
RECURSIVE WalkChain(_, _, _)
WalkChain(t, node, key) ==
    IF node = NULL THEN [node |-> NULL, fault |-> FALSE]
    ELSE IF t.nodes[node].key = NullKey
         THEN IF t.compare = "deref"
              THEN [node |-> NULL, fault |-> TRUE]
              ELSE WalkChain(t, t.nodes[node].next, key)
         ELSE IF compare(t.nodes[node].key, key) = 0
              THEN [node |-> node, fault |-> FALSE]
              ELSE WalkChain(t, t.nodes[node].next, key)

\* a lookup that compares the first entry of the bucket only
ht_get_node_first(t, key) ==
    LET node == t.table[ht_get_index(t, key) + 1]
    IN  IF node # NULL /\ t.nodes[node].key # NullKey
           /\ compare(t.nodes[node].key, key) = 0
        THEN [node |-> node, fault |-> FALSE]
        ELSE [node |-> NULL, fault |-> FALSE]

ht_get_node(t, key) == WalkChain(t, t.table[ht_get_index(t, key) + 1], key)

ht_search(t, key) ==
    LET found == ht_get_node(t, key)
    IN  [ret |-> IF found.node # NULL THEN t.nodes[found.node].value ELSE NULL,
         fault |-> found.fault]

ht_get_key(t, key) ==
    LET found == ht_get_node(t, key)
    IN  [ret |-> IF found.node # NULL THEN t.nodes[found.node].key ELSE NullKey,
         fault |-> found.fault]

ht_contains(t, key) ==
    LET found == ht_get_node(t, key)
    IN  [ret |-> found.node # NULL, fault |-> found.fault]

\* a load test that lets the table fill up before it grows
_needs_resize_late(t) == t.n_values > t.size * MAX_LOAD_FACTOR

_needs_resize(t) == t.n_values >= t.size * MAX_LOAD_FACTOR

\* relink one entry into the new bucket array; hash is called on its key
_ht_copy_insert(new_size, st, node) ==
    IF st.fault THEN st
    ELSE IF st.nodes[node].key = NullKey /\ st.compare = "deref"
         THEN [st EXCEPT !.fault = TRUE]
         ELSE LET hash_result == IF st.nodes[node].key = NullKey
                                 THEN 0
                                 ELSE st.hash[LKey(st.nodes[node].key)]
                  index == hash_result % new_size
              IN  [st EXCEPT !.nodes[node].next = st.new_table[index + 1],
                             !.new_table[index + 1] = node]

RECURSIVE CopyChain(_, _, _)
CopyChain(new_size, st, node) ==
    IF node = NULL \/ st.fault THEN st
    ELSE LET next_node == st.nodes[node].next
         IN  CopyChain(new_size, _ht_copy_insert(new_size, st, node), next_node)

RECURSIVE CopyBuckets(_, _, _, _)
CopyBuckets(new_size, st, src, i) ==
    IF i > src.size \/ st.fault THEN st
    ELSE CopyBuckets(new_size, CopyChain(new_size, st, src.table[i]), src, i + 1)

_copy_ht(new_table, src, new_size) ==
    CopyBuckets(new_size,
                [nodes |-> src.nodes, new_table |-> new_table, fault |-> FALSE,
                 compare |-> src.compare, hash |-> src.hash],
                src, 1)

_resize_ht(t) ==
    LET new_size == t.size * GROWTH_FACTOR
        st == _copy_ht(_initialise_table(new_size), t, new_size)
    IN  IF st.fault THEN [ht |-> t, fault |-> TRUE]
        ELSE [ht |-> [t EXCEPT !.size = new_size, !.table = st.new_table,
                               !.nodes = st.nodes],
              fault |-> FALSE]

\* an insert that keeps the old value of a key already present
SetValue_keep(t, node, value) == t

\* node->value = value, on the entry ht_insert found for the key
SetValue(t, node, value) == [t EXCEPT !.nodes[node].value = value]

ht_insert(t, key, value) ==
    LET index == ht_get_index(t, key)
        found == ht_get_node(t, key)
    IN  IF found.fault THEN [ht |-> t, fault |-> TRUE]
        ELSE IF found.node # NULL
        THEN [ht |-> SetValue(t, found.node, value), fault |-> FALSE]
        ELSE LET node == Malloc(t.nodes)
                 t1 == [t EXCEPT
                          !.nodes = @ @@ (node :> [key |-> key, value |-> value,
                                                   next |-> t.table[index + 1]]),
                          !.table[index + 1] = node,
                          !.n_values = @ + 1]
             IN  IF _needs_resize(t1) THEN _resize_ht(t1)
                 ELSE [ht |-> t1, fault |-> FALSE]

ht_unique_insert(t, key, value) ==
    LET c == ht_contains(t, key)
    IN  IF c.fault THEN [ht |-> t, ret |-> FALSE, fault |-> TRUE]
        ELSE IF c.ret THEN [ht |-> t, ret |-> FALSE, fault |-> FALSE]
        ELSE LET r == ht_insert(t, key, value)
             IN  [ht |-> r.ht, ret |-> TRUE, fault |-> r.fault]

\* free_key / free_value tell whether the caller supplied the callable; the
\* result lists what each was called on
ht_remove(t, key, free_key, free_value) ==
    LET found == ht_get_node(t, key)
        node == found.node
    IN  IF found.fault
        THEN [ht |-> t, fault |-> TRUE, freed_keys |-> <<>>, freed_values |-> <<>>]
        ELSE IF node = NULL
        THEN [ht |-> t, fault |-> FALSE, freed_keys |-> <<>>, freed_values |-> <<>>]
        ELSE LET next_node == t.nodes[node].next
                 old_key == t.nodes[node].key
                 old_value == t.nodes[node].value
                 t1 == IF next_node # NULL
                       THEN [t EXCEPT !.nodes[node] = t.nodes[next_node]]
                       ELSE [t EXCEPT !.nodes[node] =
                                [key |-> NullKey, value |-> NULL, next |-> NULL]]
                 t2 == IF next_node # NULL
                       THEN [t1 EXCEPT !.nodes = Free(@, next_node)]
                       ELSE t1
             IN  [ht |-> [t2 EXCEPT !.n_values = @ - 1],
                  fault |-> FALSE,
                  freed_keys |-> IF free_key /\ old_key # NullKey
                                 THEN <<old_key>> ELSE <<>>,
                  freed_values |-> IF free_value /\ old_value # NULL
                                   THEN <<old_value>> ELSE <<>>]

\* The loop of ht_reset and ht_clean down one chain: each entry's key goes to
\* free_key and its value to free_value, where supplied, and the entry is
\* freed.  st carries the heap of entries and the calls made; a free_key that
\* cannot take an absent key faults on the key of a cleared entry.
RECURSIVE FreeChain(_, _, _, _)
FreeChain(st, node, free_key, free_value) ==
    IF node = NULL \/ st.fault THEN st
    ELSE LET next == st.nodes[node].next
             key == st.nodes[node].key
             value == st.nodes[node].value
         IN  IF free_key /\ key = NullKey /\ st.compare = "deref"
             THEN [st EXCEPT !.fault = TRUE]
             ELSE FreeChain([st EXCEPT
                               !.calls = @ \o (IF free_key THEN Calls("free_key", <<key>>)
                                               ELSE <<>>)
                                           \o (IF free_value
                                               THEN Calls("free_value", <<value>>)
                                               ELSE <<>>),
                               !.nodes = Free(@, node)],
                            next, free_key, free_value)

RECURSIVE FreeBuckets(_, _, _, _, _)
FreeBuckets(st, t, i, free_key, free_value) ==
    IF i > t.size THEN st
    ELSE FreeBuckets(FreeChain(st, t.table[i], free_key, free_value),
                     t, i + 1, free_key, free_value)

FreeEntries(t, free_key, free_value) ==
    FreeBuckets([nodes |-> t.nodes, calls |-> <<>>, fault |-> FALSE,
                 compare |-> t.compare],
                t, 1, free_key, free_value)

ht_reset(t, free_key, free_value) ==
    LET st == FreeEntries(t, free_key, free_value)
    IN  IF st.fault THEN [ht |-> t, fault |-> TRUE, calls |-> st.calls]
        ELSE [ht |-> [t EXCEPT !.table = [i \in 1..t.size |-> NULL],
                               !.nodes = st.nodes,
                               !.n_values = 0],
              fault |-> FALSE, calls |-> st.calls]

\* ht_clean frees the bucket array and the table after the entries: the handle
\* is dead
ht_clean(t, free_key, free_value) ==
    LET st == FreeEntries(t, free_key, free_value)
    IN  IF st.fault THEN [ht |-> t, fault |-> TRUE, calls |-> st.calls]
        ELSE [ht |-> Dead, fault |-> FALSE, calls |-> st.calls]

(***************************************************************************)
(* Counter variant.  A counter cell (a malloc'ed size_t owned by its       *)
(* entry alone) holding count c is modelled by the value -c: it is not     *)
(* NULL and differs from every caller value.                               *)
(***************************************************************************)
IsCell(value) == value < 0

\* a count that returns what the cell held before the increment
ht_insert_count_stale(t, key) ==
    LET found == ht_get_node(t, key)
    IN  IF found.fault THEN [ht |-> t, ret |-> 0, fault |-> TRUE]
        ELSE IF found.node # NULL
        THEN [ht |-> [t EXCEPT !.nodes[found.node].value = @ - 1],
              ret |-> 0 - t.nodes[found.node].value, fault |-> FALSE]
        ELSE LET r == ht_insert(t, key, 0 - 1)
             IN  [ht |-> r.ht, ret |-> 1, fault |-> r.fault]

ht_insert_count(t, key) ==
    LET found == ht_get_node(t, key)
    IN  IF found.fault THEN [ht |-> t, ret |-> 0, fault |-> TRUE]
        ELSE IF found.node # NULL
        THEN LET t1 == [t EXCEPT !.nodes[found.node].value = @ - 1]
             IN  [ht |-> t1, ret |-> 0 - t1.nodes[found.node].value, fault |-> FALSE]
        ELSE LET r == ht_insert(t, key, 0 - 1)
             IN  [ht |-> r.ht, ret |-> 1, fault |-> r.fault]

ht_get_count(t, key) ==
    LET count == ht_search(t, key)
    IN  [ret |-> IF count.ret # NULL THEN 0 - count.ret ELSE 0, fault |-> count.fault]

(***************************************************************************)
(* Stack: a singly linked chain of nodes from head, in a heap of its own.  *)
(***************************************************************************)
stack_create == [head |-> NULL, nodes |-> <<>>]

stack_push(st, data) ==
    LET node == Malloc(st.nodes)
    IN  [head |-> node,
         nodes |-> st.nodes @@ (node :> [data |-> data, next |-> st.head])]

\* the loop of stack_create_from_array, from index i on (the C array is
\* indexed from 0, the sequence from 1)
RECURSIVE PushFrom(_, _, _, _)
PushFrom(st, node_array, i, n_nodes) ==
    IF i > n_nodes THEN st
    ELSE PushFrom(stack_push(st, node_array[i]), node_array, i + 1, n_nodes)

stack_create_from_array(node_array, n_nodes) ==
    PushFrom(stack_create, node_array, 1, n_nodes)

\* a pop that returns the top element and leaves it on the stack
stack_pop_keep(st) ==
    [stack |-> st, ret |-> IF st.head = NULL THEN NULL ELSE st.nodes[st.head].data]

stack_pop(st) ==
    LET node == st.head
    IN  IF node # NULL
        THEN [stack |-> [head |-> st.nodes[node].next, nodes |-> Free(st.nodes, node)],
              ret |-> st.nodes[node].data]
        ELSE [stack |-> st, ret |-> NULL]

stack_peek(st) == IF st.head = NULL THEN NULL ELSE st.nodes[st.head].data

stack_is_empty(st) == st.head = NULL

(***************************************************************************)
(* DoublyLinkedList                                                        *)
(***************************************************************************)
DLL_create == [head |-> NULL, tail |-> NULL, nodes |-> <<>>]

DLL_insert_tail(dll, data) ==
    LET node == Malloc(dll.nodes)
        n1 == dll.nodes @@ (node :> [data |-> data, next |-> NULL, prev |-> dll.tail])
        n2 == IF dll.tail # NULL THEN [n1 EXCEPT ![dll.tail].next = node] ELSE n1
    IN  [head |-> IF dll.head = NULL THEN node ELSE dll.head,
         tail |-> node,
         nodes |-> n2]

DLL_insert_head(list, data) ==
    LET node == Malloc(list.nodes)
        n1 == list.nodes @@ (node :> [data |-> data, next |-> list.head, prev |-> NULL])
        n2 == IF list.head # NULL THEN [n1 EXCEPT ![list.head].prev = node] ELSE n1
    IN  [head |-> node,
         tail |-> IF list.tail = NULL THEN node ELSE list.tail,
         nodes |-> n2]

\* a pop that does not reset tail when it removes the last node
DLL_pop_stale_tail(list) ==
    IF list.head = NULL THEN [dll |-> list, ret |-> NULL]
    ELSE LET node == list.head
             head == list.nodes[node].next
             n1 == IF head # NULL THEN [list.nodes EXCEPT ![head].prev = NULL]
                   ELSE list.nodes
         IN  [dll |-> [head |-> head, tail |-> list.tail, nodes |-> Free(n1, node)],
              ret |-> list.nodes[node].data]

DLL_pop(list) ==
    IF list.head = NULL THEN [dll |-> list, ret |-> NULL]
    ELSE LET node == list.head
             head == list.nodes[node].next
             n1 == IF head # NULL THEN [list.nodes EXCEPT ![head].prev = NULL]
                   ELSE list.nodes
         IN  [dll |-> [head |-> head,
                       tail |-> IF node = list.tail THEN NULL ELSE list.tail,
                       nodes |-> Free(n1, node)],
              ret |-> list.nodes[node].data]

DLL_dequeue(list) ==
    IF list.tail = NULL THEN [dll |-> list, ret |-> NULL]
    ELSE LET node == list.tail
             tail == list.nodes[node].prev
             n1 == IF tail # NULL THEN [list.nodes EXCEPT ![tail].next = NULL]
                   ELSE list.nodes
         IN  [dll |-> [head |-> IF node = list.head THEN NULL ELSE list.head,
                       tail |-> tail,
                       nodes |-> Free(n1, node)],
              ret |-> list.nodes[node].data]

\* the loop of DLL_clean: pop until the list is empty, handing each element to
\* free_data where supplied; the result is the calls made
RECURSIVE DrainList(_, _)
DrainList(list, free_data) ==
    IF list.head = NULL THEN <<>>
    ELSE LET r == DLL_pop(list)
         IN  (IF free_data THEN Calls("free_data", <<r.ret>>) ELSE <<>>)
             \o DrainList(r.dll, free_data)

\* DLL_clean frees the list after its nodes: the handle is dead
DLL_clean(list, free_data) == [dll |-> Dead, calls |-> DrainList(list, free_data)]

DLL_is_empty(list) == list.head = NULL /\ list.tail = NULL

(***************************************************************************)
(* Keyed list: a list and a table from each key to its list node.  The     *)
(* list nodes live in the heap of the list.                                *)
(***************************************************************************)
DLL_HT_create(cmp, hash) ==
    [list |-> DLL_create, ht |-> ht_create(INITIAL_TABLE_SIZE, cmp, hash)]

\* an insert that appends to the list without asking the index first
DLL_HT_insert_unchecked(d, key, data) ==
    LET list == DLL_insert_tail(d.list, data)
        node == list.tail
        r == ht_unique_insert(d.ht, key, node)
    IN  [dll_ht |-> [list |-> list, ht |-> r.ht], fault |-> r.fault]

DLL_HT_insert(d, key, data) ==
    LET c == ht_contains(d.ht, key)
    IN  IF c.fault THEN [dll_ht |-> d, fault |-> TRUE]
        ELSE IF c.ret THEN [dll_ht |-> d, fault |-> FALSE]
        ELSE LET list == DLL_insert_tail(d.list, data)
                 node == list.tail
                 r == ht_unique_insert(d.ht, key, node)
             IN  [dll_ht |-> [list |-> list, ht |-> r.ht], fault |-> r.fault]

\* an unlinking that repairs the forward links only
Unlink_forward_only(list, node) ==
    LET prev == list.nodes[node].prev
        next == list.nodes[node].next
        n1 == IF prev # NULL THEN [list.nodes EXCEPT ![prev].next = next]
              ELSE list.nodes
    IN  [head |-> IF prev # NULL THEN list.head ELSE next,
         tail |-> IF next # NULL THEN list.tail ELSE prev,
         nodes |-> n1]

\* the two unlinking steps of DLL_HT_remove on list node node
Unlink(list, node) ==
    LET prev == list.nodes[node].prev
        next == list.nodes[node].next
        n1 == IF prev # NULL THEN [list.nodes EXCEPT ![prev].next = next]
              ELSE list.nodes
        n2 == IF next # NULL THEN [n1 EXCEPT ![next].prev = prev] ELSE n1
    IN  [head |-> IF prev # NULL THEN list.head ELSE next,
         tail |-> IF next # NULL THEN list.tail ELSE prev,
         nodes |-> n2]

\* key is indexed: the code does not check what ht_search returns
DLL_HT_remove(d, key, free_data) ==
    LET found == ht_search(d.ht, key)
        node == found.ret
    IN  IF found.fault THEN [dll_ht |-> d, fault |-> TRUE, calls |-> <<>>]
        ELSE LET list == Unlink(d.list, node)
                 r == ht_remove(d.ht, key, FALSE, FALSE)
             IN  [dll_ht |-> [list |-> [list EXCEPT !.nodes = Free(@, node)],
                              ht |-> r.ht],
                  fault |-> r.fault,
                  calls |-> IF free_data
                            THEN Calls("free_data", <<d.list.nodes[node].data>>)
                            ELSE <<>>]

DLL_HT_clean(d, free_key, free_data) ==
    LET l == DLL_clean(d.list, free_data)
        t == ht_clean(d.ht, free_key, FALSE)
    IN  IF t.fault THEN [dll_ht |-> d, fault |-> TRUE, calls |-> l.calls \o t.calls]
        ELSE [dll_ht |-> Dead, fault |-> FALSE, calls |-> l.calls \o t.calls]

(***************************************************************************)
(* ResourceAllocationGraph.  rag.nodes is the heap of RAG_node_t cells:    *)
(* the nodes of the graph and the nodes the caller made itself and holds   *)
(* a reference to (ExtNodes), which it may pass as next.                   *)
(***************************************************************************)
ExtNodes == {1, 2}

ExtKey == [type |-> "RESOURCE_T", id |-> 2, obj |-> 2]

\* a node that starts with its back-reference on its edge's target
_RAG_create_node_backlinked(key, data, next) ==
    [key |-> key, data |-> data, next |-> next, _prev |-> next]

_RAG_create_node(key, data, next) ==
    [key |-> key, data |-> data, next |-> next, _prev |-> NULL]

RAG_create(cmp, hash) ==
    [ht |-> ht_create(INITIAL_TABLE_SIZE, cmp, hash),
     proc_key_list |-> DLL_create,
     res_key_list |-> DLL_create,
     n_resources |-> 0,
     n_processes |-> 0,
     nodes |-> [n \in ExtNodes |-> _RAG_create_node(ExtKey, NULL, NULL)]]

\* an increment that does not look at the type
RAG_increment_untyped(g, type) == [g EXCEPT !.n_resources = @ + 1]

RAG_increment(g, type) ==
    IF type = "PROCESS_T"
    THEN [g EXCEPT !.n_processes = @ + 1]
    ELSE [g EXCEPT !.n_resources = @ + 1]

\* a decrement that does not stop at zero
RAG_decrement_unfloored(g, type) ==
    IF type = "PROCESS_T"
    THEN [g EXCEPT !.n_processes = @ - 1]
    ELSE [g EXCEPT !.n_resources = @ - 1]

RAG_decrement(g, type) ==
    IF type = "PROCESS_T" /\ g.n_processes > 0
    THEN [g EXCEPT !.n_processes = @ - 1]
    ELSE IF type = "RESOURCE_T" /\ g.n_resources > 0
         THEN [g EXCEPT !.n_resources = @ - 1]
         ELSE g

\* an insert into the order lists that does not look at the key's type
_RAG_DLL_insert_untyped(g, key) ==
    [g EXCEPT !.proc_key_list = DLL_insert_tail(@, key)]

_RAG_DLL_insert(g, key) ==
    IF key.type = "PROCESS_T"
    THEN [g EXCEPT !.proc_key_list = DLL_insert_tail(@, key)]
    ELSE [g EXCEPT !.res_key_list = DLL_insert_tail(@, key)]

\* the creation path RAG_insert and RAG_hard_insert share
RAG_add_node(g, key, data, next) ==
    LET node == Malloc(g.nodes)
        g1 == [g EXCEPT !.nodes = @ @@ (node :> _RAG_create_node(key, data, next))]
        g2 == [g1 EXCEPT !.ht = ht_unique_insert(@, key, node).ht]
        g3 == _RAG_DLL_insert(g2, key)
    IN  [rag |-> RAG_increment(g3, g3.nodes[node].key.type), ret |-> "ADDED_NODE"]

\* a soft update that overwrites fields already set
RAG_soft_update_clobber(g, node, data, next) ==
    IF next # NULL /\ data # NULL
    THEN [rag |-> [g EXCEPT !.nodes[node].next = next, !.nodes[node].data = data],
          ret |-> "UPDATED_NEXT_DATA"]
    ELSE IF next # NULL
    THEN [rag |-> [g EXCEPT !.nodes[node].next = next], ret |-> "UPDATED_NEXT"]
    ELSE IF data # NULL
    THEN [rag |-> [g EXCEPT !.nodes[node].data = data], ret |-> "UPDATED_DATA"]
    ELSE [rag |-> g, ret |-> "NO_UPDATE"]

\* the update RAG_insert makes to an existing node: only fields that are NULL
RAG_soft_update(g, node, data, next) ==
    LET old == g.nodes[node]
    IN  IF (next # NULL /\ old.next = NULL) /\ (data # NULL /\ old.data = NULL)
        THEN [rag |-> [g EXCEPT !.nodes[node].next = next, !.nodes[node].data = data],
              ret |-> "UPDATED_NEXT_DATA"]
        ELSE IF next # NULL /\ old.next = NULL
        THEN [rag |-> [g EXCEPT !.nodes[node].next = next], ret |-> "UPDATED_NEXT"]
        ELSE IF data # NULL /\ old.data = NULL
        THEN [rag |-> [g EXCEPT !.nodes[node].data = data], ret |-> "UPDATED_DATA"]
        ELSE [rag |-> g, ret |-> "NO_UPDATE"]

RAG_insert(g, key, data, next) ==
    LET ht_node == ht_get_node(g.ht, key).node
    IN  IF ht_node = NULL
        THEN RAG_add_node(g, key, data, next)
        ELSE RAG_soft_update(g, g.ht.nodes[ht_node].value, data, next)

\* a hard update that leaves a field already set alone
RAG_hard_update_fill_only(g, node, data, next) ==
    LET old == g.nodes[node]
    IN  IF (next # NULL /\ old.next = NULL) /\ (data # NULL /\ old.data = NULL)
        THEN [rag |-> [g EXCEPT !.nodes[node].next = next, !.nodes[node].data = data],
              ret |-> "UPDATED_NEXT_DATA"]
        ELSE IF next # NULL /\ old.next = NULL
        THEN [rag |-> [g EXCEPT !.nodes[node].next = next], ret |-> "UPDATED_NEXT"]
        ELSE IF data # NULL /\ old.data = NULL
        THEN [rag |-> [g EXCEPT !.nodes[node].data = data], ret |-> "UPDATED_DATA"]
        ELSE [rag |-> g, ret |-> "NO_UPDATE"]

\* a hard update that records the node as the predecessor of its new target
RAG_hard_update_backlink(g, node, data, next) ==
    IF next # NULL
    THEN [rag |-> [g EXCEPT !.nodes[node].next = next, !.nodes[next]._prev = node],
          ret |-> "UPDATED_NEXT"]
    ELSE IF data # NULL
    THEN [rag |-> [g EXCEPT !.nodes[node].data = data], ret |-> "UPDATED_DATA"]
    ELSE [rag |-> g, ret |-> "NO_UPDATE"]

\* the update RAG_hard_insert makes to an existing node: every field supplied
\* a hard update that stores both arguments as they come, absent or not
RAG_hard_update_assign(g, node, data, next) ==
    [rag |-> [g EXCEPT !.nodes[node].next = next, !.nodes[node].data = data],
     ret |-> IF next # NULL /\ data # NULL THEN "UPDATED_NEXT_DATA"
             ELSE IF next # NULL THEN "UPDATED_NEXT"
             ELSE IF data # NULL THEN "UPDATED_DATA"
             ELSE "NO_UPDATE"]

RAG_hard_update(g, node, data, next) ==
    IF next # NULL /\ data # NULL
    THEN [rag |-> [g EXCEPT !.nodes[node].next = next, !.nodes[node].data = data],
          ret |-> "UPDATED_NEXT_DATA"]
    ELSE IF next # NULL
    THEN [rag |-> [g EXCEPT !.nodes[node].next = next], ret |-> "UPDATED_NEXT"]
    ELSE IF data # NULL
    THEN [rag |-> [g EXCEPT !.nodes[node].data = data], ret |-> "UPDATED_DATA"]
    ELSE [rag |-> g, ret |-> "NO_UPDATE"]

\* a hard insert that makes a node of its own whatever the table holds
RAG_hard_insert_anew(g, key, data, next) == RAG_add_node(g, key, data, next)

RAG_hard_insert(g, key, data, next) ==
    LET ht_node == ht_get_node(g.ht, key).node
    IN  IF ht_node = NULL
        THEN RAG_add_node(g, key, data, next)
        ELSE RAG_hard_update(g, g.ht.nodes[ht_node].value, data, next)

\* one loop of RAG_convert_to_undirected, from list node dnode on
RECURSIVE ConvertFrom(_, _, _)
ConvertFrom(g, dll, dnode) ==
    IF dnode = NULL THEN g
    ELSE LET key == dll.nodes[dnode].data
             RAG_node == ht_search(g.ht, key).ret
             next == g.nodes[RAG_node].next
             g1 == IF next # NULL THEN [g EXCEPT !.nodes[next]._prev = RAG_node] ELSE g
         IN  ConvertFrom(g1, dll, dll.nodes[dnode].next)

\* a conversion that walks the resources before the processes
RAG_convert_resources_first(g) ==
    LET g1 == ConvertFrom(g, g.res_key_list, g.res_key_list.head)
    IN  ConvertFrom(g1, g1.proc_key_list, g1.proc_key_list.head)

\* a conversion that starts by clearing every back-reference
RAG_convert_afresh(g) ==
    LET g0 == [g EXCEPT !.nodes = [n \in DOMAIN @ |-> [@[n] EXCEPT !._prev = NULL]]]
        g1 == ConvertFrom(g0, g0.proc_key_list, g0.proc_key_list.head)
    IN  ConvertFrom(g1, g1.res_key_list, g1.res_key_list.head)

\* a conversion that takes a back-reference away when it is already in place
RECURSIVE ToggleFrom(_, _, _)
ToggleFrom(g, dll, dnode) ==
    IF dnode = NULL THEN g
    ELSE LET key == dll.nodes[dnode].data
             RAG_node == ht_search(g.ht, key).ret
             next == g.nodes[RAG_node].next
             g1 == IF next = NULL THEN g
                   ELSE IF g.nodes[next]._prev = RAG_node
                   THEN [g EXCEPT !.nodes[next]._prev = NULL]
                   ELSE [g EXCEPT !.nodes[next]._prev = RAG_node]
         IN  ToggleFrom(g1, dll, dll.nodes[dnode].next)

RAG_convert_toggle(g) ==
    LET g1 == ToggleFrom(g, g.proc_key_list, g.proc_key_list.head)
    IN  ToggleFrom(g1, g1.res_key_list, g1.res_key_list.head)

RAG_convert_to_undirected(g) ==
    LET g1 == ConvertFrom(g, g.proc_key_list, g.proc_key_list.head)
    IN  ConvertFrom(g1, g1.res_key_list, g1.res_key_list.head)

\* a clean that hands the order lists' elements to free_keys as well
RAG_clean_list_elements(g, free_keys, free_values) ==
    LET p == DLL_clean(g.proc_key_list, free_keys)
        r == DLL_clean(g.res_key_list, free_keys)
        t == ht_clean(g.ht, free_keys, free_values)
    IN  [rag |-> Dead, fault |-> t.fault, calls |-> p.calls \o r.calls \o t.calls]

\* RAG_clean frees the graph after its lists and table: the handle is dead
RAG_clean(g, free_keys, free_values) ==
    LET p == DLL_clean(g.proc_key_list, FALSE)
        r == DLL_clean(g.res_key_list, FALSE)
        t == ht_clean(g.ht, free_keys, free_values)
    IN  [rag |-> Dead, fault |-> t.fault, calls |-> p.calls \o r.calls \o t.calls]

(***************************************************************************)
(* The hash table as a state machine.                                      *)
(***************************************************************************)
AbsEmpty == [l \in LKeys |-> [present |-> FALSE, value |-> NULL, key |-> NullKey]]

NoOp == [name |-> "create", key |-> NullKey, value |-> NULL, ret |-> 0, had |-> FALSE]

InitHT ==
    /\ \E size \in 1..MaxInitSize, cmp \in NullModes :
           ht = ht_create(size, cmp, hash_fn)
    /\ abs = AbsEmpty
    /\ op = NoOp
    /\ nops = 0
    /\ aborted = FALSE
    /\ rag = RAG_create("deref", hash_fn)
    /\ dlist = DLL_create
    /\ dll_ht = DLL_HT_create("deref", hash_fn)
    /\ freed = <<>>
    /\ stack = stack_create

\* the record of an operation: had tells whether the key was present before it
Did(name, key, value, ret) ==
    [name |-> name, key |-> key, value |-> value, ret |-> ret,
     had |-> abs[LKey(key)].present]

Abort(name, key, value) ==
    /\ aborted' = TRUE
    /\ nops' = nops + 1
    /\ op' = Did(name, key, value, 0)
    /\ UNCHANGED <<ht, abs, rag, dlist, dll_ht, freed, stack>>

HtInsert(key, value) ==
    /\ ~aborted
    /\ nops < MaxOps
    /\ LET r == ht_insert(ht, key, value)
       IN  IF r.fault THEN Abort("insert", key, value)
           ELSE /\ ht' = r.ht
                /\ abs' = [abs EXCEPT ![LKey(key)] =
                             [present |-> TRUE, value |-> value,
                              key |-> IF @.present THEN @.key ELSE key]]
                /\ op' = Did("insert", key, value, 0)
                /\ nops' = nops + 1
                /\ UNCHANGED <<aborted, rag, dlist, dll_ht, freed, stack>>

HtUniqueInsert(key, value) ==
    /\ ~aborted
    /\ nops < MaxOps
    /\ LET r == ht_unique_insert(ht, key, value)
       IN  IF r.fault THEN Abort("unique_insert", key, value)
           ELSE /\ ht' = r.ht
                /\ abs' = IF abs[LKey(key)].present THEN abs
                          ELSE [abs EXCEPT ![LKey(key)] =
                                  [present |-> TRUE, value |-> value, key |-> key]]
                /\ op' = Did("unique_insert", key, value, IF r.ret THEN 1 ELSE 0)
                /\ nops' = nops + 1
                /\ UNCHANGED <<aborted, rag, dlist, dll_ht, freed, stack>>

\* insert_count writes through the stored value: the caller uses it only on a
\* key that is absent or holds a counter cell
HtInsertCount(key) ==
    /\ ~aborted
    /\ nops < MaxOps
    /\ abs[LKey(key)].present => IsCell(abs[LKey(key)].value)
    /\ LET r == ht_insert_count(ht, key)
       IN  IF r.fault THEN Abort("insert_count", key, NULL)
           ELSE /\ ht' = r.ht
                /\ abs' = [abs EXCEPT ![LKey(key)] =
                             IF @.present
                             THEN [@ EXCEPT !.value = @ - 1]
                             ELSE [present |-> TRUE, value |-> 0 - 1, key |-> key]]
                /\ op' = Did("insert_count", key, NULL, r.ret)
                /\ nops' = nops + 1
                /\ UNCHANGED <<aborted, rag, dlist, dll_ht, freed, stack>>

HtRemove(key, free_key, free_value) ==
    /\ ~aborted
    /\ nops < MaxOps
    /\ LET r == ht_remove(ht, key, free_key, free_value)
       IN  IF r.fault THEN Abort("remove", key, NULL)
           ELSE /\ ht' = r.ht
                /\ abs' = [abs EXCEPT ![LKey(key)] =
                             [present |-> FALSE, value |-> NULL, key |-> NullKey]]
                /\ op' = Did("remove", key, NULL, 0)
                /\ nops' = nops + 1
                /\ freed' = freed \o Calls("free_key", r.freed_keys)
                                  \o Calls("free_value", r.freed_values)
                /\ UNCHANGED <<aborted, rag, dlist, dll_ht, stack>>

NextHT ==
    \/ \E key \in Keys, value \in Values : HtInsert(key, value)
    \/ \E key \in Keys, value \in Values : HtUniqueInsert(key, value)
    \/ \E key \in Keys, free_key \in BOOLEAN, free_value \in BOOLEAN :
           HtRemove(key, free_key, free_value)

SpecHT == InitHT /\ [][NextHT]_vars

\* the table used with its counter variant as well, by a caller that leaves
\* keys and values to itself on remove
NextCount ==
    \/ \E key \in Keys, value \in Values : HtInsert(key, value)
    \/ \E key \in Keys, value \in Values : HtUniqueInsert(key, value)
    \/ \E key \in Keys : HtInsertCount(key)
    \/ \E key \in Keys : HtRemove(key, FALSE, FALSE)

SpecCount == InitHT /\ [][NextCount]_vars

\* the table used as a tally: through its counter variant only
NextTally == \E key \in Keys : HtInsertCount(key)

SpecTally == InitHT /\ [][NextTally]_vars

\* the table with reset
HtReset(free_key, free_value) ==
    /\ ~aborted
    /\ nops < MaxOps
    /\ LET r == ht_reset(ht, free_key, free_value)
       IN  /\ ht' = r.ht
           /\ aborted' = r.fault
           /\ abs' = IF r.fault THEN abs ELSE AbsEmpty
           /\ freed' = IF r.fault THEN freed ELSE freed \o r.calls
    /\ op' = [name |-> "reset", key |-> NullKey, value |-> <<free_key, free_value>>,
              ret |-> 0, had |-> FALSE]
    /\ nops' = nops + 1
    /\ UNCHANGED <<rag, dlist, dll_ht, stack>>

NextReset ==
    \/ \E key \in Keys, value \in Values : HtInsert(key, value)
    \/ \E key \in Keys, value \in Values : HtUniqueInsert(key, value)
    \/ \E key \in Keys, free \in BOOLEAN : HtRemove(key, free, free)
    \/ \E free_key \in BOOLEAN, free_value \in BOOLEAN : HtReset(free_key, free_value)

SpecReset == InitHT /\ [][NextReset]_vars

(***************************************************************************)
(* The graph as a state machine.  abs is the ghost record of the keys      *)
(* inserted so far; ht is not used.                                        *)
(***************************************************************************)
InitRAG ==
    /\ rag = RAG_create("deref", hash_fn)
    /\ ht = ht_create(1, "deref", hash_fn)
    /\ abs = AbsEmpty
    /\ op = [name |-> "create", key |-> NullKey, value |-> NULL, next |-> NULL,
             ret |-> "NO_UPDATE", had |-> FALSE,
             old |-> _RAG_create_node(NullKey, NULL, NULL)]
    /\ nops = 0
    /\ aborted = FALSE
    /\ dlist = DLL_create
    /\ dll_ht = DLL_HT_create("deref", hash_fn)
    /\ freed = <<>>
    /\ stack = stack_create

\* the graph's own nodes, and the one holding logical key l
GraphNodes(g) == (DOMAIN g.nodes) \ ExtNodes

NodeOf(g, l) == CHOOSE n \in GraphNodes(g) : LKey(g.nodes[n].key) = l

\* the record of an operation: had tells whether the key was in the graph
\* before it, old what its node then held
RagDid(name, key, data, next, ret) ==
    LET had == key # NullKey /\ abs[LKey(key)].present
    IN  [name |-> name, key |-> key, value |-> data, next |-> next, ret |-> ret,
         had |-> had,
         old |-> IF had THEN rag.nodes[NodeOf(rag, LKey(key))]
                 ELSE _RAG_create_node(NullKey, NULL, NULL)]

Noted(key) ==
    IF abs[LKey(key)].present THEN abs
    ELSE [abs EXCEPT ![LKey(key)] = [present |-> TRUE, value |-> NULL, key |-> key]]

RagInsertDo(key, data, next) ==
    /\ rag # Dead
    /\ LET r == RAG_insert(rag, key, data, next)
       IN  /\ rag' = r.rag
           /\ op' = RagDid("insert", key, data, next, r.ret)
    /\ abs' = Noted(key)
    /\ nops' = nops + 1
    /\ UNCHANGED <<ht, aborted, dlist, dll_ht, freed, stack>>

RagHardInsertDo(key, data, next) ==
    /\ rag # Dead
    /\ LET r == RAG_hard_insert(rag, key, data, next)
       IN  /\ rag' = r.rag
           /\ op' = RagDid("hard_insert", key, data, next, r.ret)
    /\ abs' = Noted(key)
    /\ nops' = nops + 1
    /\ UNCHANGED <<ht, aborted, dlist, dll_ht, freed, stack>>

RagConvertDo ==
    /\ rag # Dead
    /\ rag' = RAG_convert_to_undirected(rag)
    /\ op' = RagDid("convert_to_undirected", NullKey, NULL, NULL, "NO_UPDATE")
    /\ nops' = nops + 1
    /\ UNCHANGED <<ht, abs, aborted, dlist, dll_ht, freed, stack>>

RagIncrementDo(type) ==
    /\ rag # Dead
    /\ rag' = RAG_increment(rag, type)
    /\ op' = RagDid("increment", NullKey, NULL, NULL, type)
    /\ nops' = nops + 1
    /\ UNCHANGED <<ht, abs, aborted, dlist, dll_ht, freed, stack>>

RagDecrementDo(type) ==
    /\ rag # Dead
    /\ rag' = RAG_decrement(rag, type)
    /\ op' = RagDid("decrement", NullKey, NULL, NULL, type)
    /\ nops' = nops + 1
    /\ UNCHANGED <<ht, abs, aborted, dlist, dll_ht, freed, stack>>

RagInsert(key, data, next) == nops < MaxRagOps /\ RagInsertDo(key, data, next)

RagHardInsert(key, data, next) == nops < MaxRagOps /\ RagHardInsertDo(key, data, next)

RagConvert == nops < MaxRagOps /\ RagConvertDo

RagIncrement(type) == nops < MaxRagOps /\ RagIncrementDo(type)

RagDecrement(type) == nops < MaxRagOps /\ RagDecrementDo(type)

\* the key objects the caller passes to the graph
RagKeys == {k \in Keys : k.type = "PROCESS_T" \/ k.id = 1}

\* the payloads a call can carry: none, or an object the caller has just
\* allocated for this call (the graph owns and frees the payloads it stores)
Data == {NULL, nops + 1}

\* the node references a caller can hold: NULL, its own nodes, the graph's
BuildHandles == {NULL} \cup (IF rag = Dead THEN {} ELSE DOMAIN rag.nodes)

\* the same, of a caller that uses one node of its own only
Handles == {n \in BuildHandles : n \notin ExtNodes \/ n = Min(ExtNodes)}

NextRAG ==
    \/ \E key \in RagKeys, data \in Data, next \in Handles :
           RagInsert(key, data, next)
    \/ \E key \in RagKeys, data \in Data, next \in Handles :
           RagHardInsert(key, data, next)
    \/ RagConvert
    \/ \E type \in type_t : RagIncrement(type)
    \/ \E type \in type_t : RagDecrement(type)

SpecRAG == InitRAG /\ [][NextRAG]_vars

\* the graph before it is converted
NextDeclare ==
    \/ \E key \in RagKeys, data \in Data, next \in Handles :
           RagInsert(key, data, next)
    \/ \E key \in RagKeys, data \in Data, next \in Handles :
           RagHardInsert(key, data, next)
    \/ \E type \in type_t : RagIncrement(type)
    \/ \E type \in type_t : RagDecrement(type)

SpecDeclare == InitRAG /\ [][NextDeclare]_vars

\* the graph with its terminal operation: the caller does not use the graph
\* after RAG_clean
RagClean(free_keys, free_values) ==
    /\ nops < MaxRagOps
    /\ rag # Dead
    /\ LET r == RAG_clean(rag, free_keys, free_values)
       IN  /\ rag' = IF r.fault THEN rag ELSE r.rag
           /\ aborted' = r.fault
           /\ freed' = freed \o r.calls
    /\ op' = RagDid("clean", NullKey, NULL, NULL, <<free_keys, free_values>>)
    /\ nops' = nops + 1
    /\ UNCHANGED <<ht, abs, dlist, dll_ht, stack>>

NextClean ==
    \/ NextRAG
    \/ \E free_keys \in BOOLEAN, free_values \in BOOLEAN :
           RagClean(free_keys, free_values)

SpecClean == InitRAG /\ [][NextClean]_vars

\* The graph built edge by edge, as its consumer builds it: nodes and edges
\* are declared by insert and hard_insert, without payload, counters are only
\* ever lowered by hand, and the graph is converted any number of times.
BuildKeys == {k \in RagKeys : k.obj = 1}

BuildInsert(key, next) == nops < MaxBuildOps /\ RagInsertDo(key, NULL, next)

BuildHardInsert(key, next) == nops < MaxBuildOps /\ RagHardInsertDo(key, NULL, next)

BuildConvert == nops < MaxBuildOps /\ RagConvertDo

BuildDecrement(type) == nops < MaxBuildOps /\ RagDecrementDo(type)

NextBuild ==
    \/ \E key \in BuildKeys, next \in BuildHandles : BuildInsert(key, next)
    \/ \E key \in BuildKeys, next \in BuildHandles : BuildHardInsert(key, next)
    \/ BuildConvert
    \/ \E type \in type_t : BuildDecrement(type)

SpecBuild == InitRAG /\ [][NextBuild]_vars

(***************************************************************************)
(* A caller that builds edges and converts, possibly several times in a    *)
(* row: the record of a conversion tells whether the operation before it   *)
(* was a conversion too.                                                   *)
(***************************************************************************)
TwiceConvert ==
    /\ nops < MaxBuildOps
    /\ rag # Dead
    /\ rag' = RAG_convert_to_undirected(rag)
    /\ op' = [RagDid("convert_to_undirected", NullKey, NULL, NULL, "NO_UPDATE")
                 EXCEPT !.had = (op.name = "convert_to_undirected")]
    /\ nops' = nops + 1
    /\ UNCHANGED <<ht, abs, aborted, dlist, dll_ht, freed, stack>>

NextTwice ==
    \/ \E key \in BuildKeys, next \in BuildHandles : BuildInsert(key, next)
    \/ \E key \in BuildKeys, next \in BuildHandles : BuildHardInsert(key, next)
    \/ TwiceConvert

SpecTwice == InitRAG /\ [][NextTwice]_vars

(***************************************************************************)
(* The graph about to grow its node table.  The table is created with      *)
(* INITIAL_TABLE_SIZE buckets and grows when it holds as many entries, so  *)
(* the runs start from a graph in which the consumer has declared all but  *)
(* one or two of that many resources; the hash it supplies is hash_fn      *)
(* continued to their keys.                                                *)
(***************************************************************************)
FillKey(i) == [type |-> "RESOURCE_T", id |-> i + 2, obj |-> 1]

grow_hash ==
    [l \in type_t \X (1..(INITIAL_TABLE_SIZE + 1)) |->
        IF l[1] = "PROCESS_T" THEN 392 * (l[2] - 1) ELSE 3 + l[2]]

\* graph g after RAG_insert of the further resources i to n, each of which
\* returns ADDED_NODE
RECURSIVE RAG_fill(_, _, _)
RAG_fill(g, i, n) ==
    IF i > n THEN g
    ELSE LET r == RAG_insert(g, FillKey(i), NULL, NULL)
         IN  IF r.ret = "ADDED_NODE" THEN RAG_fill(r.rag, i + 1, n) ELSE g

RAG_filled(n) == RAG_fill(RAG_create("deref", grow_hash), 1, n)

InitGrow ==
    /\ \E n \in {INITIAL_TABLE_SIZE - 2, INITIAL_TABLE_SIZE - 1} : rag = RAG_filled(n)
    /\ ht = ht_create(1, "deref", hash_fn)
    /\ abs = AbsEmpty
    /\ op = [name |-> "create", key |-> NullKey, value |-> NULL, next |-> NULL,
             ret |-> "NO_UPDATE", had |-> FALSE,
             old |-> _RAG_create_node(NullKey, NULL, NULL)]
    /\ nops = 0
    /\ aborted = FALSE
    /\ dlist = DLL_create
    /\ dll_ht = DLL_HT_create("deref", hash_fn)
    /\ freed = <<>>
    /\ stack = stack_create

\* nodes and edges are declared without payload, as in SpecBuild
GrowInsert(key, next) == nops < MaxGrowOps /\ RagInsertDo(key, NULL, next)

GrowHardInsert(key, next) == nops < MaxGrowOps /\ RagHardInsertDo(key, NULL, next)

NextGrow ==
    \/ \E key \in RagKeys, next \in {NULL, Min(ExtNodes)} : GrowInsert(key, next)
    \/ \E key \in RagKeys, next \in {NULL, Min(ExtNodes)} : GrowHardInsert(key, next)

SpecGrow == InitGrow /\ [][NextGrow]_vars

(***************************************************************************)
(* The doubly linked list as a state machine.  op records the last         *)
(* operation, the element it was given and the element it returned.        *)
(***************************************************************************)
InitDLL ==
    /\ dlist = DLL_create
    /\ dll_ht = DLL_HT_create("deref", hash_fn)
    /\ rag = RAG_create("deref", hash_fn)
    /\ ht = ht_create(1, "deref", hash_fn)
    /\ abs = <<>>
    /\ op = [name |-> "create", value |-> NULL, ret |-> NULL]
    /\ nops = 0
    /\ aborted = FALSE
    /\ freed = <<>>
    /\ stack = stack_create

\* the elements a caller stores in a list
Elements == {NULL, 1, 2}

DllInsertHead(data) ==
    /\ nops < MaxDllOps
    /\ dlist' = DLL_insert_head(dlist, data)
    /\ op' = [name |-> "insert_head", value |-> data, ret |-> NULL]
    /\ nops' = nops + 1
    /\ UNCHANGED <<ht, abs, aborted, rag, dll_ht, freed, stack>>

DllInsertTail(data) ==
    /\ nops < MaxDllOps
    /\ dlist' = DLL_insert_tail(dlist, data)
    /\ op' = [name |-> "insert_tail", value |-> data, ret |-> NULL]
    /\ nops' = nops + 1
    /\ UNCHANGED <<ht, abs, aborted, rag, dll_ht, freed, stack>>

DllPop ==
    /\ nops < MaxDllOps
    /\ LET r == DLL_pop(dlist)
       IN  /\ dlist' = r.dll
           /\ op' = [name |-> "pop", value |-> NULL, ret |-> r.ret]
    /\ nops' = nops + 1
    /\ UNCHANGED <<ht, abs, aborted, rag, dll_ht, freed, stack>>

DllDequeue ==
    /\ nops < MaxDllOps
    /\ LET r == DLL_dequeue(dlist)
       IN  /\ dlist' = r.dll
           /\ op' = [name |-> "dequeue", value |-> NULL, ret |-> r.ret]
    /\ nops' = nops + 1
    /\ UNCHANGED <<ht, abs, aborted, rag, dll_ht, freed, stack>>

NextDLL ==
    \/ \E data \in Elements : DllInsertHead(data)
    \/ \E data \in Elements : DllInsertTail(data)
    \/ DllPop
    \/ DllDequeue

SpecDLL == InitDLL /\ [][NextDLL]_vars

(***************************************************************************)
(* The keyed list as a state machine.  abs is the ghost record of every    *)
(* element inserted so far, in insertion order: its key object, its value, *)
(* whether it is still in the list and, once removed, whether the remove   *)
(* was given a free callable.                                              *)
(***************************************************************************)
InitKeyed ==
    /\ \E cmp \in NullModes : dll_ht = DLL_HT_create(cmp, hash_fn)
    /\ dlist = DLL_create
    /\ rag = RAG_create("deref", hash_fn)
    /\ ht = ht_create(1, "deref", hash_fn)
    /\ abs = <<>>
    /\ op = [name |-> "create", key |-> NullKey, value |-> NULL, had |-> FALSE]
    /\ nops = 0
    /\ aborted = FALSE
    /\ freed = <<>>
    /\ stack = stack_create

\* the elements of the ghost record still in the list, and whether key is the
\* key of one of them
Live(seq) == SelectSeq(seq, LAMBDA e : e.live)

Indexed(seq, key) == \E i \in DOMAIN seq : seq[i].live /\ LKey(seq[i].key) = LKey(key)

KeyedDid(name, key, value) ==
    [name |-> name, key |-> key, value |-> value, had |-> Indexed(abs, key)]

KeyedAbort(name, key, value) ==
    /\ aborted' = TRUE
    /\ op' = KeyedDid(name, key, value)
    /\ nops' = nops + 1
    /\ UNCHANGED <<ht, abs, rag, dlist, dll_ht, freed, stack>>

KeyedInsert(key, data) ==
    /\ ~aborted /\ dll_ht # Dead
    /\ nops < MaxKeyedOps
    /\ LET r == DLL_HT_insert(dll_ht, key, data)
       IN  IF r.fault THEN KeyedAbort("insert", key, data)
           ELSE /\ dll_ht' = r.dll_ht
                /\ abs' = IF Indexed(abs, key) THEN abs
                          ELSE Append(abs, [key |-> key, value |-> data,
                                            live |-> TRUE, released |-> FALSE])
                /\ op' = KeyedDid("insert", key, data)
                /\ nops' = nops + 1
                /\ UNCHANGED <<ht, aborted, rag, dlist, freed, stack>>

\* the caller removes indexed keys only
KeyedRemove(key, free_data) ==
    /\ ~aborted /\ dll_ht # Dead
    /\ nops < MaxKeyedOps
    /\ Indexed(abs, key)
    /\ LET r == DLL_HT_remove(dll_ht, key, free_data)
       IN  IF r.fault THEN KeyedAbort("remove", key, NULL)
           ELSE /\ dll_ht' = r.dll_ht
                /\ abs' = [i \in DOMAIN abs |->
                             IF abs[i].live /\ LKey(abs[i].key) = LKey(key)
                             THEN [abs[i] EXCEPT !.live = FALSE, !.released = free_data]
                             ELSE abs[i]]
                /\ freed' = freed \o r.calls
                /\ op' = KeyedDid("remove", key, NULL)
                /\ nops' = nops + 1
                /\ UNCHANGED <<ht, aborted, rag, dlist, stack>>

KeyedClean(free_key, free_data) ==
    /\ ~aborted /\ dll_ht # Dead
    /\ nops < MaxKeyedOps
    /\ LET r == DLL_HT_clean(dll_ht, free_key, free_data)
       IN  /\ dll_ht' = r.dll_ht
           /\ aborted' = r.fault
           /\ freed' = IF r.fault THEN freed ELSE freed \o r.calls
    /\ op' = [name |-> "clean", key |-> NullKey, value |-> <<free_key, free_data>>,
              had |-> FALSE]
    /\ nops' = nops + 1
    /\ UNCHANGED <<ht, abs, rag, dlist, stack>>

NextKeyed ==
    \/ \E key \in RagKeys, data \in Data : KeyedInsert(key, data)
    \/ \E key \in RagKeys, free_data \in BOOLEAN : KeyedRemove(key, free_data)
    \/ \E free_key \in BOOLEAN, free_data \in BOOLEAN : KeyedClean(free_key, free_data)

SpecKeyed == InitKeyed /\ [][NextKeyed]_vars

(***************************************************************************)
(* A plain list and a keyed list used side by side: the plain list through *)
(* its four operations, the keyed list through insert and remove.          *)
(***************************************************************************)
NextLists ==
    \/ \E data \in Values : nops < MaxListOps /\ DllInsertHead(data)
    \/ \E data \in Values : nops < MaxListOps /\ DllInsertTail(data)
    \/ nops < MaxListOps /\ DllPop
    \/ nops < MaxListOps /\ DllDequeue
    \/ \E key \in RagKeys, data \in Values : nops < MaxListOps /\ KeyedInsert(key, data)
    \/ \E key \in RagKeys, free_data \in BOOLEAN :
           nops < MaxListOps /\ KeyedRemove(key, free_data)

SpecLists == InitKeyed /\ [][NextLists]_vars

(***************************************************************************)
(* The stack as a state machine.  It is made from an array; abs is the     *)
(* ghost sequence of the elements on it, oldest first, and op records the  *)
(* last operation, the element it was given, the element it returned and   *)
(* the array the stack was made from.                                      *)
(***************************************************************************)
Arrays == UNION {[1..n -> Elements] : n \in 0..MaxArrayLen}

InitStack ==
    /\ \E node_array \in Arrays :
           /\ stack = stack_create_from_array(node_array, Len(node_array))
           /\ abs = node_array
           /\ op = [name |-> "create_from_array", value |-> NULL, ret |-> NULL,
                    from |-> node_array]
    /\ ht = ht_create(1, "deref", hash_fn)
    /\ rag = RAG_create("deref", hash_fn)
    /\ dlist = DLL_create
    /\ dll_ht = DLL_HT_create("deref", hash_fn)
    /\ nops = 0
    /\ aborted = FALSE
    /\ freed = <<>>

StackPush(data) ==
    /\ nops < MaxStackOps
    /\ stack' = stack_push(stack, data)
    /\ abs' = Append(abs, data)
    /\ op' = [name |-> "push", value |-> data, ret |-> NULL, from |-> op.from]
    /\ nops' = nops + 1
    /\ UNCHANGED <<ht, aborted, rag, dlist, dll_ht, freed>>

StackPop ==
    /\ nops < MaxStackOps
    /\ LET r == stack_pop(stack)
       IN  /\ stack' = r.stack
           /\ op' = [name |-> "pop", value |-> NULL, ret |-> r.ret, from |-> op.from]
    /\ abs' = IF abs = <<>> THEN abs ELSE SubSeq(abs, 1, Len(abs) - 1)
    /\ nops' = nops + 1
    /\ UNCHANGED <<ht, aborted, rag, dlist, dll_ht, freed>>

StackPeek ==
    /\ nops < MaxStackOps
    /\ op' = [name |-> "peek", value |-> NULL, ret |-> stack_peek(stack),
              from |-> op.from]
    /\ nops' = nops + 1
    /\ UNCHANGED <<ht, abs, aborted, rag, dlist, dll_ht, freed, stack>>

NextStack ==
    \/ \E data \in Elements : StackPush(data)
    \/ StackPop
    \/ StackPeek

SpecStack == InitStack /\ [][NextStack]_vars

(***************************************************************************)
(* Calls with absent arguments.  Every public function starts with an      *)
(* assert on each pointer it needs; an assert that fails aborts the        *)
(* program before the function has done anything.  Signature gives, for    *)
(* each public function, the arguments the caller must supply (the handle, *)
(* the key, the callables of a create); OwnAsserts the arguments the       *)
(* function itself asserts on entry; FirstCall the function that a         *)
(* function without asserts of its own calls before anything else.         *)
(***************************************************************************)
TableKeyOps ==
    {"ht_insert", "ht_search", "ht_get_index", "ht_get_node", "ht_get_key",
     "ht_contains", "ht_unique_insert", "ht_remove", "ht_insert_count",
     "ht_get_count"}

TableOps == {"ht_reset", "ht_clean"}

ListOps ==
    {"DLL_insert_head", "DLL_insert_tail", "DLL_pop", "DLL_dequeue", "DLL_clean",
     "DLL_is_empty"}

KeyedKeyOps == {"DLL_HT_insert", "DLL_HT_remove"}

GraphKeyOps == {"RAG_insert", "RAG_hard_insert"}

GraphOps ==
    {"RAG_convert_to_undirected", "RAG_increment", "RAG_decrement", "RAG_clean"}

PublicOps ==
    {"ht_create", "DLL_HT_create", "RAG_create", "DLL_HT_clean"}
        \cup TableKeyOps \cup TableOps \cup ListOps \cup KeyedKeyOps
        \cup GraphKeyOps \cup GraphOps

Signature(fn) ==
    IF fn = "ht_create" THEN {"compare", "hash"}
    ELSE IF fn \in {"DLL_HT_create", "RAG_create"} THEN {"cmp", "hash"}
    ELSE IF fn \in TableKeyOps THEN {"ht", "key"}
    ELSE IF fn \in TableOps THEN {"ht"}
    ELSE IF fn \in ListOps THEN {"dll"}
    ELSE IF fn \in KeyedKeyOps THEN {"dll_ht", "key"}
    ELSE IF fn = "DLL_HT_clean" THEN {"dll_ht"}
    ELSE IF fn \in GraphKeyOps THEN {"rag", "key"}
    ELSE {"rag"}

FirstCall(fn) ==
    IF fn = "ht_insert_count" THEN "ht_get_node"
    ELSE IF fn = "ht_get_count" THEN "ht_search"
    ELSE fn

\* asserts that leave the key to the functions called later
OwnAsserts_handle_only(fn) == Signature(fn) \ {"key"}

OwnAsserts(fn) ==
    IF fn = "ht_create" THEN {"compare", "hash"}
    ELSE IF fn \in {"DLL_HT_create", "RAG_create"} THEN {"cmp", "hash"}
    ELSE IF fn \in {"ht_insert_count", "ht_get_count"} THEN {}
    ELSE IF fn \in TableKeyOps THEN {"ht", "key"}
    ELSE IF fn \in TableOps THEN {"ht"}
    ELSE IF fn \in ListOps THEN {"dll"}
    ELSE IF fn \in KeyedKeyOps THEN {"dll_ht", "key"}
    ELSE IF fn = "DLL_HT_clean" THEN {"dll_ht"}
    ELSE IF fn \in GraphKeyOps THEN {"rag", "key"}
    ELSE {"rag"}

\* the arguments asserted before the function has any effect
Asserts(fn) == OwnAsserts(fn) \cup OwnAsserts(FirstCall(fn))

InitArgs ==
    /\ \E size \in 1..MaxInitSize : ht = ht_create(size, "deref", hash_fn)
    /\ rag = RAG_create("deref", hash_fn)
    /\ dlist = DLL_create
    /\ dll_ht = DLL_HT_create("deref", hash_fn)
    /\ abs = <<>>
    /\ op = [name |-> "create", absent |-> {}, ret |-> "returned"]
    /\ nops = 0
    /\ aborted = FALSE
    /\ freed = <<>>
    /\ stack = stack_create

Called(fn) ==
    /\ op' = [name |-> fn, absent |-> {}, ret |-> "returned"]
    /\ nops' = nops + 1
    /\ UNCHANGED <<abs, aborted, freed, stack>>

\* calls with every argument supplied, which fill the structures
ArgsHtInsert(key, value) ==
    /\ ~aborted /\ nops < MaxArgOps
    /\ ht' = ht_insert(ht, key, value).ht
    /\ Called("ht_insert")
    /\ UNCHANGED <<rag, dlist, dll_ht, stack>>

ArgsDllInsertTail(data) ==
    /\ ~aborted /\ nops < MaxArgOps
    /\ dlist' = DLL_insert_tail(dlist, data)
    /\ Called("DLL_insert_tail")
    /\ UNCHANGED <<ht, rag, dll_ht, stack>>

ArgsKeyedInsert(key, data) ==
    /\ ~aborted /\ nops < MaxArgOps
    /\ dll_ht' = DLL_HT_insert(dll_ht, key, data).dll_ht
    /\ Called("DLL_HT_insert")
    /\ UNCHANGED <<ht, rag, dlist, stack>>

ArgsRagInsert(key, data) ==
    /\ ~aborted /\ nops < MaxArgOps
    /\ rag' = RAG_insert(rag, key, data, NULL).rag
    /\ Called("RAG_insert")
    /\ UNCHANGED <<ht, dlist, dll_ht, stack>>

\* A call of fn with the arguments in absent NULL.  If one of them is
\* asserted the program aborts there.  If none is, the function goes on to
\* dereference a NULL pointer, which is undefined: it may fault or carry on.
CallAbsent(fn, absent) ==
    /\ ~aborted /\ nops < MaxArgOps
    /\ IF absent \cap Asserts(fn) # {}
       THEN /\ aborted' = TRUE
            /\ op' = [name |-> fn, absent |-> absent, ret |-> "none"]
       ELSE \E fault \in BOOLEAN :
                /\ aborted' = fault
                /\ op' = [name |-> fn, absent |-> absent,
                          ret |-> IF fault THEN "none" ELSE "undefined"]
    /\ nops' = nops + 1
    /\ UNCHANGED <<ht, abs, rag, dlist, dll_ht, freed, stack>>

NextArgs ==
    \/ \E key \in BuildKeys, value \in Values : ArgsHtInsert(key, value)
    \/ \E data \in Elements : ArgsDllInsertTail(data)
    \/ \E key \in BuildKeys, data \in Data : ArgsKeyedInsert(key, data)
    \/ \E key \in BuildKeys, data \in Data : ArgsRagInsert(key, data)
    \/ \E fn \in PublicOps :
           \E absent \in (SUBSET Signature(fn)) \ {{}} : CallAbsent(fn, absent)

SpecArgs == InitArgs /\ [][NextArgs]_vars

(***************************************************************************)
(* What the claims speak of.                                               *)
(***************************************************************************)
RECURSIVE ChainOf(_, _)
ChainOf(t, node) ==
    IF node = NULL THEN <<>> ELSE <<node>> \o ChainOf(t, t.nodes[node].next)

Range(seq) == {seq[i] : i \in DOMAIN seq}

\* the entries linked from bucket i (1-based)
Bucket(t, i) == ChainOf(t, t.table[i])

\* every entry linked from some bucket
Linked(t) == UNION {Range(Bucket(t, i)) : i \in 1..t.size}

\* the entries that hold a key
Entries(t) == {n \in Linked(t) : t.nodes[n].key # NullKey}

KeysOf(l) == {k \in Keys : LKey(k) = l}

Returned(value) == [ret |-> value, fault |-> FALSE]

InsertOps == {"insert", "unique_insert"}

\* C1: whenever a key is present, search with any equal key object returns the
\* value of the most recent insert of that key, whatever inserts of other
\* keys and growths happened in between.
C1_LastWriteWins ==
    ~aborted =>
        \A l \in LKeys : abs[l].present =>
            \A k \in KeysOf(l) : ht_search(ht, k) = Returned(abs[l].value)

\* an existing key has just been overwritten with another value, in a table
\* that has grown and holds other keys
C1_Witness ==
    /\ ~aborted /\ op.name = "insert" /\ op.had /\ op.value = 1
    /\ ht.size > MaxInitSize /\ ht.n_values >= 2
    /\ ht_search(ht, op.key) = Returned(1)

\* C2: in every state, contains(k) returns true exactly when the latest
\* insert or unique_insert of k has not been followed by a remove of k.
C2_ContainsIffNetInsert ==
    ~aborted =>
        \A k \in Keys : ht_contains(ht, k) = Returned(abs[LKey(k)].present)

\* C3: no two entries linked in the table hold logically equal keys.
C3_OneEntryPerKey ==
    \A n1 \in Entries(ht), n2 \in Entries(ht) :
        n1 # n2 => compare(ht.nodes[n1].key, ht.nodes[n2].key) # 0

\* an insert, unique_insert or insert_count of a key already present, given
\* through another key object, in a table holding several entries
C3_Witness ==
    /\ ~aborted /\ op.name \in InsertOps \cup {"insert_count"} /\ op.had
    /\ op.key.obj = 2 /\ ht.n_values >= 3 /\ Cardinality(Entries(ht)) = ht.n_values

\* C4: an insert that returns doubles the bucket count exactly when it added an
\* entry and the entry count thereby reached the bucket count, and leaves it
\* alone otherwise; the entry count never exceeds the bucket count.
C4_GrowthTrigger ==
    [][(op'.name \in InsertOps /\ ~aborted') =>
          /\ ht'.size = IF ~op'.had /\ ht.n_values + 1 >= ht.size
                        THEN GROWTH_FACTOR * ht.size ELSE ht.size
          /\ ht'.n_values = IF op'.had THEN ht.n_values ELSE ht.n_values + 1
          /\ ht'.n_values <= ht'.size]_vars

\* the table has doubled twice or more, the last time at this insert
C4_Witness ==
    /\ ~aborted /\ op.name \in InsertOps /\ ~op.had
    /\ ht.size >= 4 * MaxInitSize /\ ht.size = GROWTH_FACTOR * ht.n_values

\* the insert this step performs triggers growth
TriggersGrowth == op'.name \in InsertOps /\ ~op'.had /\ ht.n_values + 1 >= ht.size

\* what growth must preserve, from the state before the insert to the state
\* after it
GrowthPreserves ==
    /\ \A l \in LKeys : abs[l].present =>
           \A k \in KeysOf(l) : ht_search(ht', k) = Returned(abs[l].value)
    /\ ht'.n_values = ht.n_values + 1
    /\ \E new \in DOMAIN ht'.nodes :
           /\ new \notin DOMAIN ht.nodes
           /\ DOMAIN ht'.nodes = DOMAIN ht.nodes \cup {new}
           /\ Linked(ht') = Linked(ht) \cup {new}
    /\ \A n \in DOMAIN ht.nodes :
           /\ ht'.nodes[n].key = ht.nodes[n].key
           /\ ht'.nodes[n].value = ht.nodes[n].value
    /\ \A i \in 1..ht'.size : \A n \in Range(Bucket(ht', i)) :
           ht'.nodes[n].key # NullKey => ht_get_index(ht', ht'.nodes[n].key) + 1 = i

\* C5: an insert that triggers growth completes, and keeps every key with its
\* value, the same entry objects, and each entry in the bucket of its hash.
C5_GrowthPreserves ==
    [][TriggersGrowth => (~aborted' /\ GrowthPreserves)]_vars

\* the same, of the growths that complete
C5_CompletedGrowthPreserves ==
    [][(TriggersGrowth /\ ~aborted') => GrowthPreserves]_vars

\* what remove of a present key must achieve
RemoveEffect ==
    /\ \A k \in KeysOf(LKey(op'.key)) :
           /\ ht_search(ht', k) = Returned(NULL)
           /\ ht_contains(ht', k) = Returned(FALSE)
    /\ ht'.n_values = ht.n_values - 1
    /\ \A l \in LKeys \ {LKey(op'.key)} : abs[l].present =>
           \A k \in KeysOf(l) :
               /\ ht_search(ht', k) = Returned(abs[l].value)
               /\ ht_contains(ht', k) = Returned(TRUE)

\* C6: remove of a present key makes it absent for search and contains, takes
\* one off the entry count and keeps every other key with its value.
C6_RemoveMakesAbsent ==
    [][(op'.name = "remove" /\ op'.had) => (~aborted' /\ RemoveEffect)]_vars

\* C7: unique_insert of an absent key stores the key and value and returns
\* true; of a present key it returns false and changes nothing.
C7_UniqueInsert ==
    [][op'.name = "unique_insert" =>
          /\ ~aborted'
          /\ IF op'.had
             THEN op'.ret = 0 /\ ht' = ht
             ELSE /\ op'.ret = 1
                  /\ ht_search(ht', op'.key) = Returned(op'.value)
                  /\ ht_get_key(ht', op'.key) = Returned(op'.key)
                  /\ ht'.n_values = ht.n_values + 1]_vars

\* the same, of the calls that return
C7_UniqueInsertReturned ==
    [][(op'.name = "unique_insert" /\ ~aborted') =>
          IF op'.had
          THEN op'.ret = 0 /\ ht' = ht
          ELSE /\ op'.ret = 1
               /\ ht_search(ht', op'.key) = Returned(op'.value)
               /\ ht_get_key(ht', op'.key) = Returned(op'.key)
               /\ ht'.n_values = ht.n_values + 1]_vars

\* the data of a list's nodes, head to tail
RECURSIVE DllData(_, _)
DllData(dll, node) ==
    IF node = NULL THEN <<>>
    ELSE <<dll.nodes[node].data>> \o DllData(dll, dll.nodes[node].next)

ListData(dll) == DllData(dll, dll.head)

Count(seq, x) == Cardinality({i \in DOMAIN seq : seq[i] = x})

\* the key objects the node table holds
TableKeys(g) == {g.ht.nodes[n].key : n \in Entries(g.ht)}

\* the node of the key the last operation was given
OpNode == rag.nodes[NodeOf(rag, LKey(op.key))]

SoftData == op.value # NULL /\ op.old.data = NULL

SoftNext == op.next # NULL /\ op.old.next = NULL

Status(next, data) ==
    IF next /\ data THEN "UPDATED_NEXT_DATA"
    ELSE IF next THEN "UPDATED_NEXT"
    ELSE IF data THEN "UPDATED_DATA"
    ELSE "NO_UPDATE"

\* C8: insert of a key already in the graph sets data, and next, exactly when
\* the caller gave one and the node had none, keeps every field that was set,
\* and returns the status naming the fields it set.
C8_SoftInsert ==
    (op.name = "insert" /\ op.had) =>
        /\ OpNode.data = IF SoftData THEN op.value ELSE op.old.data
        /\ OpNode.next = IF SoftNext THEN op.next ELSE op.old.next
        /\ OpNode.key = op.old.key
        /\ OpNode._prev = op.old._prev
        /\ op.ret = Status(SoftNext, SoftData)

\* insert(K, D1, absent) then insert(K, D2, N1): data stays D1, next becomes
\* N1, the status is UPDATED_NEXT
C8_Witness ==
    /\ op.name = "insert" /\ op.had /\ op.ret = "UPDATED_NEXT"
    /\ op.value # NULL /\ op.next # NULL
    /\ op.old.data # NULL /\ op.old.data # op.value /\ op.old.next = NULL
    /\ OpNode.data = op.old.data /\ OpNode.next = op.next

\* C9: hard_insert of a key already in the graph sets each of data and next
\* the caller gave, whatever the node held, keeps a field not given, and
\* returns the status naming the fields given.
C9_HardInsert ==
    (op.name = "hard_insert" /\ op.had) =>
        /\ OpNode.data = IF op.value # NULL THEN op.value ELSE op.old.data
        /\ OpNode.next = IF op.next # NULL THEN op.next ELSE op.old.next
        /\ OpNode.key = op.old.key
        /\ OpNode._prev = op.old._prev
        /\ op.ret = Status(op.next # NULL, op.value # NULL)

\* hard_insert(K, D1) then hard_insert(K, D2): data is D2, the status is
\* UPDATED_DATA
C9_Witness ==
    /\ op.name = "hard_insert" /\ op.had /\ op.ret = "UPDATED_DATA"
    /\ op.old.data # NULL /\ op.old.data # op.value
    /\ OpNode.data = op.value /\ OpNode.next = op.old.next

\* C10: every key of the node table is in the order list of its type once and
\* not in the other, every list element is a key of the node table, and no
\* list holds two equal keys.
C10_OrderLists ==
    LET procs == ListData(rag.proc_key_list)
        ress == ListData(rag.res_key_list)
    IN  /\ \A k \in TableKeys(rag) :
               /\ Count(procs, k) = (IF k.type = "PROCESS_T" THEN 1 ELSE 0)
               /\ Count(ress, k) = (IF k.type = "PROCESS_T" THEN 0 ELSE 1)
        /\ Range(procs) \cup Range(ress) \subseteq TableKeys(rag)
        /\ \A k \in Range(procs) \cup Range(ress) : ht_contains(rag.ht, k).ret
        /\ \A list \in {procs, ress} : \A i \in DOMAIN list, j \in DOMAIN list :
               i # j => compare(list[i], list[j]) # 0

\* a key of each type is in the graph and a key already there has just been
\* inserted again through another key object
C10_Witness ==
    /\ op.name \in {"insert", "hard_insert"} /\ op.had /\ op.key.obj = 2
    /\ Len(ListData(rag.proc_key_list)) >= 1
    /\ Len(ListData(rag.res_key_list)) >= 1
    /\ Cardinality(TableKeys(rag)) = 2

\* the counter and the order list of one type
Counter(g, type) == IF type = "PROCESS_T" THEN g.n_processes ELSE g.n_resources

OrderList(g, type) ==
    ListData(IF type = "PROCESS_T" THEN g.proc_key_list ELSE g.res_key_list)

\* the number of distinct keys of a type that the node table contains
Present(g, type) ==
    Cardinality({id \in {1, 2} :
                    ht_contains(g.ht, [type |-> type, id |-> id, obj |-> 1]).ret})

RagInserts == {"insert", "hard_insert"}

\* C11: after any sequence of insert, hard_insert and decrement calls, each
\* counter equals the number of keys of its type present in the graph, which
\* is the length of the order list of that type.
C11_CounterConsistency ==
    \A type \in type_t :
        /\ Counter(rag, type) = Present(rag, type)
        /\ Counter(rag, type) = Len(OrderList(rag, type))

\* C11 as amended: each order list holds the keys of its type present; an
\* insert or hard_insert raises the counter of a type by as much as the number
\* of keys of that type present (one for an absent key, nothing for a present
\* one); a decrement lowers the named counter by one unless it is zero and
\* removes no key, so a counter never exceeds the number of keys present.
C11_CountersFollowInserts ==
    [][\A type \in type_t :
          LET present == Present(rag, type)
              present_after == Present(rag', type)
              counter == Counter(rag, type)
              counter_after == Counter(rag', type)
          IN  /\ Len(OrderList(rag', type)) = present_after
              /\ counter_after <= present_after
              /\ counter_after >= 0
              /\ op'.name \in RagInserts =>
                     /\ counter_after - counter = present_after - present
                     /\ present_after - present
                            = (IF ~op'.had /\ op'.key.type = type THEN 1 ELSE 0)
              /\ op'.name = "decrement" =>
                     /\ present_after = present
                     /\ counter_after = (IF op'.ret = type /\ counter > 0
                                         THEN counter - 1 ELSE counter)]_vars

\* a resource has been added after the process counter was lowered by hand
\* below the one process present
C11_Witness ==
    /\ op.name \in RagInserts /\ ~op.had /\ op.key.type = "RESOURCE_T"
    /\ rag.n_resources = 1 /\ Present(rag, "RESOURCE_T") = 1
    /\ rag.n_processes = 0 /\ Present(rag, "PROCESS_T") = 1

\* the graph nodes in the order the conversion visits them: the process order
\* list head to tail, then the resource order list
Visits(g) ==
    LET keys == OrderList(g, "PROCESS_T") \o OrderList(g, "RESOURCE_T")
    IN  [i \in DOMAIN keys |-> NodeOf(g, LKey(keys[i]))]

\* the positions in the visiting order of the nodes whose edge targets t
Sources(g, t) == {i \in DOMAIN Visits(g) : g.nodes[Visits(g)[i]].next = t}

Max(S) == CHOOSE x \in S : \A y \in S : x >= y

\* C12: after convert_to_undirected, the back-reference of every node that is
\* the target of some node's edge is the node visited last among those whose
\* edge targets it.
C12_LastVisitedWins ==
    op.name = "convert_to_undirected" =>
        \A t \in DOMAIN rag.nodes : Sources(rag, t) # {} =>
            rag.nodes[t]._prev = Visits(rag)[Max(Sources(rag, t))]

\* a process and a resource both have an edge to the same node, and the
\* conversion left that node's back-reference on the resource
C12_Witness ==
    /\ op.name = "convert_to_undirected"
    /\ \E t \in DOMAIN rag.nodes :
           /\ \E i \in Sources(rag, t), j \in Sources(rag, t) :
                  /\ i < j
                  /\ rag.nodes[Visits(rag)[i]].key.type = "PROCESS_T"
                  /\ rag.nodes[Visits(rag)[j]].key.type = "RESOURCE_T"
                  /\ rag.nodes[t]._prev = Visits(rag)[j]

\* C13: a conversion never unsets a back-reference: a node no edge targets any
\* more keeps the back-reference it had, and a node some edge targets gets one
\* of the nodes whose edge targets it.
C13_StaleBackReference ==
    [][op'.name = "convert_to_undirected" =>
          \A t \in DOMAIN rag.nodes :
              IF Sources(rag', t) = {}
              THEN rag'.nodes[t]._prev = rag.nodes[t]._prev
              ELSE \E i \in Sources(rag', t) : rag'.nodes[t]._prev = Visits(rag')[i]]_vars

\* after a conversion, node a's edge was retargeted from node b to node c by
\* hard_insert, and a second conversion has set c's back-reference to a while
\* b, which no edge targets, still has a as its back-reference
C13_Witness ==
    /\ op.name = "convert_to_undirected"
    /\ \E a \in GraphNodes(rag), b \in DOMAIN rag.nodes, c \in DOMAIN rag.nodes :
           /\ b # c /\ a # b /\ a # c
           /\ rag.nodes[a].next = c
           /\ rag.nodes[c]._prev = a
           /\ rag.nodes[b]._prev = a
           /\ Sources(rag, b) = {}

\* C14: insert or hard_insert of an absent key returns ADDED_NODE, creates one
\* node holding the data and next given and no back-reference, registers it
\* under the key, appends the key to the order list of its type and raises the
\* counter of its type only; every other node, the target of next included, is
\* left as it was and no other key is registered.
C14_AddNode ==
    [][(op'.name \in RagInserts /\ ~op'.had) =>
          /\ op'.ret = "ADDED_NODE"
          /\ \E new \in DOMAIN rag'.nodes :
                 /\ new \notin DOMAIN rag.nodes
                 /\ DOMAIN rag'.nodes = DOMAIN rag.nodes \cup {new}
                 /\ rag'.nodes[new] = [key |-> op'.key, data |-> op'.value,
                                       next |-> op'.next, _prev |-> NULL]
                 /\ ht_search(rag'.ht, op'.key) = Returned(new)
          /\ \A n \in DOMAIN rag.nodes : rag'.nodes[n] = rag.nodes[n]
          /\ ht_contains(rag.ht, op'.key) = Returned(FALSE)
          /\ ht_get_key(rag'.ht, op'.key) = Returned(op'.key)
          /\ TableKeys(rag') = TableKeys(rag) \cup {op'.key}
          /\ rag'.ht.n_values = rag.ht.n_values + 1
          /\ \A type \in type_t :
                 IF type = op'.key.type
                 THEN /\ OrderList(rag', type) = Append(OrderList(rag, type), op'.key)
                      /\ Counter(rag', type) = Counter(rag, type) + 1
                 ELSE /\ OrderList(rag', type) = OrderList(rag, type)
                      /\ Counter(rag', type) = Counter(rag, type)]_vars

\* a process has been added with a payload and an edge to a node the caller
\* made itself, whose key is not in the graph, after another process
C14_Witness ==
    /\ op.name \in RagInserts /\ ~op.had /\ op.ret = "ADDED_NODE"
    /\ op.key.type = "PROCESS_T" /\ op.value # NULL /\ op.next \in ExtNodes
    /\ rag.nodes[op.next].key \notin TableKeys(rag)
    /\ ~ht_contains(rag.ht, rag.nodes[op.next].key).ret
    /\ Len(OrderList(rag, "PROCESS_T")) = 2
    /\ OrderList(rag, "PROCESS_T")[2] = op.key

\* the calls this step makes to free callables
NewCalls == SubSeq(freed', Len(freed) + 1, Len(freed'))

\* the nodes the node table holds
TableNodes(g) == {g.ht.nodes[n].value : n \in Entries(g.ht)}

\* C16: RAG clean hands no element of the order lists to a callable, hands
\* each key of the node table once to free_key and each node of the node
\* table once to free_value, and makes no other call.
C16_CleanFreesOnce ==
    [][op'.name = "clean" =>
          /\ ~aborted' /\ rag' = Dead
          /\ \A k \in TableKeys(rag) :
                 Count(NewCalls, [fn |-> "free_key", arg |-> k])
                     = (IF op'.ret[1] THEN 1 ELSE 0)
          /\ \A n \in TableNodes(rag) :
                 Count(NewCalls, [fn |-> "free_value", arg |-> n])
                     = (IF op'.ret[2] THEN 1 ELSE 0)
          /\ Len(NewCalls) = (IF op'.ret[1] THEN Cardinality(TableKeys(rag)) ELSE 0)
                             + (IF op'.ret[2] THEN Cardinality(TableNodes(rag)) ELSE 0)]_vars

\* a graph holding a process and a resource has been cleaned with both
\* callables: two keys and two nodes were released
C16_Witness ==
    /\ op.name = "clean" /\ op.ret = <<TRUE, TRUE>> /\ rag = Dead
    /\ Len(freed) = 4
    /\ \E i \in DOMAIN freed, j \in DOMAIN freed :
           /\ freed[i].fn = "free_key" /\ freed[i].arg.type = "PROCESS_T"
           /\ freed[j].fn = "free_key" /\ freed[j].arg.type = "RESOURCE_T"

\* the abstract sequence after operation o on sequence seq, and what o returns
SeqStep(o, seq) ==
    IF o.name = "insert_head" THEN [seq |-> <<o.value>> \o seq, ret |-> NULL]
    ELSE IF o.name = "insert_tail" THEN [seq |-> Append(seq, o.value), ret |-> NULL]
    ELSE IF seq = <<>> THEN [seq |-> <<>>, ret |-> NULL]
    ELSE IF o.name = "pop" THEN [seq |-> Tail(seq), ret |-> Head(seq)]
    ELSE [seq |-> SubSeq(seq, 1, Len(seq) - 1), ret |-> seq[Len(seq)]]

\* C17: the list read head to tail behaves as a sequence: insert_head
\* prepends, insert_tail appends, pop removes and returns the first element,
\* dequeue the last, both return absent on an empty list and leave it empty,
\* and is_empty tells whether the sequence is empty.
C17_ListIsSequence ==
    [][/\ ListData(dlist') = SeqStep(op', ListData(dlist)).seq
       /\ op'.ret = SeqStep(op', ListData(dlist)).ret
       /\ DLL_is_empty(dlist') = (ListData(dlist') = <<>>)
       /\ DLL_is_empty(dlist) = (ListData(dlist) = <<>>)]_vars

\* a list filled from both ends has been emptied from both ends: the last pop
\* returned the element put at the head and left the list empty
C17_Witness ==
    /\ op.name = "pop" /\ op.ret = 2 /\ nops = 4
    /\ DLL_is_empty(dlist) /\ ListData(dlist) = <<>> /\ DOMAIN dlist.nodes = {}

\* the nodes of a list, head to tail
ListNodes(list) == ChainOf(list, list.head)

\* the arguments of the calls made to callable fn, in order
Args(calls, fn) ==
    LET made == SelectSeq(calls, LAMBDA c : c.fn = fn)
    IN  [i \in DOMAIN made |-> made[i].arg]

\* every element removed so far was removed with a free callable, and there
\* is one
RemovedWithFree(seq) ==
    /\ \E i \in DOMAIN seq : ~seq[i].live
    /\ \A i \in DOMAIN seq : ~seq[i].live => seq[i].released

\* C15: when keys have been removed with a free callable and the keyed list is
\* then cleaned with both callables, clean completes and every key object and
\* every value inserted has been handed to its free callable once in all, and
\* the callables were handed nothing else.
C15_EachReleasedOnce ==
    [][(op'.name = "clean" /\ op'.value = <<TRUE, TRUE>> /\ RemovedWithFree(abs)) =>
          /\ ~aborted'
          /\ \A i \in DOMAIN abs :
                 /\ Count(Args(freed', "free_key"), abs[i].key) = 1
                 /\ Count(Args(freed', "free_data"), abs[i].value)
                        = Cardinality({j \in DOMAIN abs : abs[j].value = abs[i].value})
          /\ Len(Args(freed', "free_key")) = Cardinality({abs[i].key : i \in DOMAIN abs})
          /\ Len(Args(freed', "free_data")) = Len(abs)]_vars

\* what insert of a key that is not indexed must achieve
KeyedAppend ==
    /\ ListNodes(dll_ht'.list) = Append(ListNodes(dll_ht.list), dll_ht'.list.tail)
    /\ dll_ht'.list.tail \notin DOMAIN dll_ht.list.nodes
    /\ ListData(dll_ht'.list) = Append(ListData(dll_ht.list), op'.value)
    /\ ht_search(dll_ht'.ht, op'.key) = Returned(dll_ht'.list.tail)
    /\ dll_ht'.ht.n_values = dll_ht.ht.n_values + 1
    /\ \A k \in RagKeys : Indexed(abs, k) =>
           /\ ht_search(dll_ht'.ht, k) = ht_search(dll_ht.ht, k)
           /\ ht_search(dll_ht'.ht, k).ret \in Range(ListNodes(dll_ht'.list))

\* C18: keyed-list insert of an indexed key changes neither list nor index;
\* of a key not indexed it appends one node holding the value at the tail and
\* maps the key to that node.
C18_KeyedInsert ==
    [][op'.name = "insert" =>
          /\ ~aborted'
          /\ IF op'.had THEN dll_ht' = dll_ht ELSE KeyedAppend]_vars

\* the same, of the calls that return
C18_KeyedInsertReturned ==
    [][(op'.name = "insert" /\ ~aborted') =>
          IF op'.had THEN dll_ht' = dll_ht ELSE KeyedAppend]_vars

\* what remove of an indexed key must achieve
KeyedUnlink ==
    LET node == ht_search(dll_ht.ht, op'.key).ret
    IN  /\ node \in Range(ListNodes(dll_ht.list))
        /\ ListNodes(dll_ht'.list) = SelectSeq(ListNodes(dll_ht.list), LAMBDA n : n # node)
        /\ DOMAIN dll_ht'.list.nodes = (DOMAIN dll_ht.list.nodes) \ {node}
        /\ \A n \in DOMAIN dll_ht'.list.nodes :
               dll_ht'.list.nodes[n].data = dll_ht.list.nodes[n].data
        /\ ht_contains(dll_ht'.ht, op'.key) = Returned(FALSE)
        /\ \A k \in RagKeys : (Indexed(abs, k) /\ LKey(k) # LKey(op'.key)) =>
               ht_search(dll_ht'.ht, k) = ht_search(dll_ht.ht, k)

\* key was once removed from the list
Removed(seq, key) == \E i \in DOMAIN seq : ~seq[i].live /\ LKey(seq[i].key) = LKey(key)

\* C19: keyed-list remove of an indexed key takes that key's node, wherever it
\* is, out of the list, keeps the others in order and makes the key no longer
\* indexed; a later insert of the key appends a new element at the tail.
C19_KeyedRemove ==
    [][/\ op'.name = "remove" => (~aborted' /\ KeyedUnlink)
       /\ (op'.name = "insert" /\ ~op'.had /\ Removed(abs, op'.key)) =>
              (~aborted' /\ KeyedAppend)]_vars

\* the same, of the calls that return, with a compare that takes an absent key
C19_KeyedRemoveTolerated ==
    [][dll_ht.ht.compare = "tolerate" =>
          /\ op'.name = "remove" => (~aborted' /\ KeyedUnlink)
          /\ (op'.name = "insert" /\ ~op'.had /\ Removed(abs, op'.key)) =>
                 (~aborted' /\ KeyedAppend)]_vars

\* the keys present before this step, by the ghost map
WasPresent == {l \in LKeys : abs[l].present}

\* what reset must achieve
ResetEffect ==
    /\ ht'.n_values = 0
    /\ \A i \in 1..ht'.size : ht'.table[i] = NULL
    /\ Linked(ht') = {}
    /\ ht'.size = ht.size
    /\ \A k \in Keys :
           /\ ht_contains(ht', k) = Returned(FALSE)
           /\ ht_search(ht', k) = Returned(NULL)
    /\ \A l \in WasPresent :
           /\ op'.value[1] => Count(Args(NewCalls, "free_key"), abs[l].key) = 1
           /\ (op'.value[2] /\ abs[l].value # NULL) =>
                  Count(Args(NewCalls, "free_value"), abs[l].value)
                      = Cardinality({m \in WasPresent : abs[m].value = abs[l].value})
    /\ ~op'.value[1] => Args(NewCalls, "free_key") = <<>>
    /\ ~op'.value[2] => Args(NewCalls, "free_value") = <<>>
    /\ \A k \in Keys, v \in Values :
           LET r == ht_insert(ht', k, v)
           IN  /\ ~r.fault
               /\ r.ht.n_values = 1
               /\ ht_search(r.ht, k) = Returned(v)
               /\ ht_get_key(r.ht, k) = Returned(k)

\* C20: reset completes, leaves no entry in any bucket and the entry count 0,
\* keeps the bucket count, makes every key absent, has handed each stored key
\* and value once to the callable supplied for it, and leaves a table that
\* takes inserts and lookups.
C20_Reset ==
    [][op'.name = "reset" => (~aborted' /\ ResetEffect)]_vars

\* the same, of the resets that complete
C20_CompletedReset ==
    [][(op'.name = "reset" /\ ~aborted') => ResetEffect]_vars

\* C21: an insert or hard_insert keeps every entry of the node table with its
\* key object and its node, found under its key also after the table has
\* grown; given a key already in the graph, through whichever key object, it
\* adds no entry to the table or to an order list, makes no node and changes
\* no counter; given a new key it stores that key object with a new node.
C21_NodeAndKeyStay ==
    [][op'.name \in RagInserts =>
          /\ \A n \in DOMAIN rag.ht.nodes :
                 /\ n \in DOMAIN rag'.ht.nodes
                 /\ rag'.ht.nodes[n].key = rag.ht.nodes[n].key
                 /\ rag'.ht.nodes[n].value = rag.ht.nodes[n].value
                 /\ ht_get_node(rag'.ht, rag.ht.nodes[n].key).node = n
          /\ \A n \in DOMAIN rag.nodes :
                 n \in DOMAIN rag'.nodes /\ rag'.nodes[n].key = rag.nodes[n].key
          /\ Cardinality(DOMAIN rag'.ht.nodes) = rag'.ht.n_values
          /\ IF op'.had
             THEN /\ DOMAIN rag'.ht.nodes = DOMAIN rag.ht.nodes
                  /\ DOMAIN rag'.nodes = DOMAIN rag.nodes
                  /\ rag'.ht.size = rag.ht.size
                  /\ rag'.proc_key_list = rag.proc_key_list
                  /\ rag'.res_key_list = rag.res_key_list
                  /\ \A type \in type_t : Counter(rag', type) = Counter(rag, type)
                  /\ ht_get_key(rag'.ht, op'.key) = Returned(abs[LKey(op'.key)].key)
             ELSE /\ ht_get_key(rag'.ht, op'.key) = Returned(op'.key)
                  /\ ht_search(rag'.ht, op'.key).ret \notin DOMAIN rag.nodes
                  /\ rag'.nodes[ht_search(rag'.ht, op'.key).ret].key = op'.key]_vars

\* the first process was declared before the table grew and has now been
\* inserted again through another key object: the table still holds the first
\* key object
C21_Witness ==
    /\ op.name \in RagInserts /\ op.had /\ op.key.obj = 2
    /\ rag.ht.size = GROWTH_FACTOR * INITIAL_TABLE_SIZE
    /\ rag.ht.n_values = INITIAL_TABLE_SIZE
    /\ abs[<<"RESOURCE_T", 1>>].present
    /\ NodeOf(rag, <<"PROCESS_T", 1>>) < NodeOf(rag, <<"RESOURCE_T", 1>>)
    /\ ht_get_key(rag.ht, op.key).ret.obj = 1

OtherType(type) == IF type = "PROCESS_T" THEN "RESOURCE_T" ELSE "PROCESS_T"

\* C22: increment adds one to the counter of the type given; decrement takes
\* one off it when it is above zero and does nothing when it is zero, so no
\* counter goes below zero; neither changes the other counter, the node table,
\* the nodes or the order lists.
C22_CounterSteps ==
    [][op'.name \in {"increment", "decrement"} =>
          LET type == op'.ret
              counter == Counter(rag, type)
          IN  /\ Counter(rag', type) =
                     (IF op'.name = "increment" THEN counter + 1
                      ELSE IF counter > 0 THEN counter - 1 ELSE 0)
              /\ Counter(rag', type) >= 0
              /\ Counter(rag', OtherType(type)) = Counter(rag, OtherType(type))
              /\ rag'.ht = rag.ht
              /\ rag'.nodes = rag.nodes
              /\ rag'.proc_key_list = rag.proc_key_list
              /\ rag'.res_key_list = rag.res_key_list]_vars

\* a resource was inserted and then the process counter, at zero, was
\* decremented: it is still zero and the resource counter still one
C22_Witness ==
    /\ nops = 2 /\ op.name = "decrement" /\ op.ret = "PROCESS_T"
    /\ Present(rag, "RESOURCE_T") = 1
    /\ rag.n_processes = 0 /\ rag.n_resources = 1

\* C23: a call of a public table, list, keyed-list or graph function with an
\* absent handle, key or create callable aborts: it does not return and
\* leaves every structure as it was.
C23_AbsentArgumentAborts ==
    [][(op'.name \in PublicOps /\ op'.absent # {}) =>
          /\ aborted'
          /\ op'.ret = "none"
          /\ UNCHANGED <<ht, rag, dlist, dll_ht, freed, stack>>]_vars

\* a function that asserts nothing itself has been called without a key, on a
\* table that holds entries, beside a list, a keyed list and a graph in use
C23_Witness ==
    /\ aborted /\ op.name = "ht_insert_count" /\ op.absent = {"key"}
    /\ ht.n_values >= 1
    /\ nops = MaxArgOps

\* C24: search and get_key of any key return without failing, and return
\* the absence marker exactly when the key is not in the table.
C24_LookupsSignalAbsence ==
    ~aborted =>
        \A k \in Keys :
            /\ ~ht_search(ht, k).fault
            /\ ~ht_get_key(ht, k).fault
            /\ (ht_search(ht, k).ret = NULL) <=> ~abs[LKey(k)].present
            /\ (ht_get_key(ht, k).ret = NullKey) <=> ~abs[LKey(k)].present

\* what holds of the lookups that return: get_key gives the stored key object
\* or the absence marker, search the stored value, which may itself be absent
C24_LookupsThatReturn ==
    ~aborted =>
        \A k \in Keys :
            /\ ~ht_get_key(ht, k).fault =>
                   ht_get_key(ht, k).ret = abs[LKey(k)].key
            /\ ~ht_search(ht, k).fault =>
                   ht_search(ht, k).ret = abs[LKey(k)].value
            /\ abs[LKey(k)].present <=> abs[LKey(k)].key # NullKey

\* the number of insert_count calls made so far on logical key l, in a table
\* used as a tally
Tally(l) == IF abs[l].present THEN 0 - abs[l].value ELSE 0

\* C25: in a table used as a tally, get_count of a key never counted is 0, the
\* n-th insert_count of a key returns n, and get_count of the key is then n,
\* whatever was counted for other keys and however the table grew.
C25_Tally ==
    /\ ~aborted
    /\ \A k \in Keys : ht_get_count(ht, k) = Returned(Tally(LKey(k)))
    /\ op.name = "insert_count" => op.ret = Tally(LKey(op.key))
    /\ nops = Tally(<<"PROCESS_T", 1>>) + Tally(<<"PROCESS_T", 2>>)
               + Tally(<<"RESOURCE_T", 1>>) + Tally(<<"RESOURCE_T", 2>>)

\* the second count of a key, through another key object, after another key
\* was counted and the table grew twice
C25_Witness ==
    /\ op.name = "insert_count" /\ op.ret = 2 /\ op.key.obj = 2
    /\ ht.n_values >= 2 /\ ht.size >= 4
    /\ ht_get_count(ht, op.key) = Returned(2)

\* C26: remove of a key that is not in the table returns having left the
\* table as it was and called neither free callable.
C26_RemoveAbsent ==
    [][(op'.name = "remove" /\ ~op'.had) =>
          (~aborted' /\ ht' = ht /\ freed' = freed)]_vars

\* the same, of the calls that return
C26_RemoveAbsentReturned ==
    [][(op'.name = "remove" /\ ~op'.had /\ ~aborted') =>
          (ht' = ht /\ freed' = freed)]_vars

\* C27: as long as convert_to_undirected has not run, no node of the graph,
\* and no node the caller holds, has a back-reference.
C27_NoPrevBeforeConvert ==
    \A n \in DOMAIN rag.nodes : rag.nodes[n]._prev = NULL

\* an edge between two nodes of the graph has been set by insert and then
\* retargeted by hard_insert
C27_Witness ==
    /\ op.name = "hard_insert" /\ op.ret = "UPDATED_NEXT"
    /\ op.old.next \in GraphNodes(rag) /\ op.next # op.old.next
    /\ OpNode.next = op.next
    /\ \A n \in GraphNodes(rag) : rag.nodes[n]._prev = NULL

\* the elements on a stack, from the node given down
RECURSIVE StackData(_, _)
StackData(st, node) ==
    IF node = NULL THEN <<>>
    ELSE <<st.nodes[node].data>> \o StackData(st, st.nodes[node].next)

Reverse(seq) == [i \in 1..Len(seq) |-> seq[Len(seq) + 1 - i]]

\* the most recently pushed element not yet popped, if any
Top(seq) == IF seq = <<>> THEN NULL ELSE seq[Len(seq)]

\* C28: the stack holds the elements pushed and not yet popped, the latest on
\* top, starting with the elements of the array it was made from in index
\* order; pop returns the top element and removes it, peek returns it and
\* leaves the stack as it is, and on an empty stack both return the absence
\* marker and leave it empty.
C28_Lifo ==
    [][/\ StackData(stack, stack.head) = Reverse(abs)
       /\ StackData(stack', stack'.head) = Reverse(abs')
       /\ stack_is_empty(stack') <=> abs' = <<>>
       /\ op'.name = "pop" =>
              /\ op'.ret = Top(abs)
              /\ abs = <<>> => stack' = stack
              /\ abs # <<>> =>
                     StackData(stack', stack'.head) = Tail(StackData(stack, stack.head))
       /\ op'.name = "peek" => (op'.ret = Top(abs) /\ stack' = stack)]_vars

\* a stack made from a two-element array has been popped twice, giving the
\* second element and then the first, and a third pop has found it empty
C28_Witness ==
    /\ op.from = <<1, 2>> /\ nops = 3 /\ abs = <<>>
    /\ op.name = "pop" /\ op.ret = NULL
    /\ stack_is_empty(stack) /\ stack.nodes = <<>>

\* C29: the entry count is the number of entries linked from the buckets, and
\* every linked entry holds a key: remove leaves no cleared entry behind.
C29_NoResidualSlot ==
    /\ ht.n_values = Cardinality(Linked(ht))
    /\ \A n \in Linked(ht) : ht.nodes[n].key # NullKey

\* what does hold: the entry count is the number of linked entries that hold
\* a key
C29_CountsKeyedEntries ==
    ht.n_values = Cardinality(Entries(ht))

\* C30: no operation given a key hands an absent key to the caller's compare,
\* hash or free_key, and in no state reached would a search or contains.
C30_NoAbsentKeyToCallables ==
    /\ ~aborted
    /\ \A i \in DOMAIN freed : freed[i].fn = "free_key" => freed[i].arg # NullKey
    /\ \A k \in Keys : ~ht_search(ht, k).fault /\ ~ht_contains(ht, k).fault

(***************************************************************************)
(* C31                                                                     *)
(***************************************************************************)
\* the nodes met from node by following field ("next" or "prev"), at most fuel
\* of them
RECURSIVE Walk(_, _, _, _)
Walk(list, node, field, fuel) ==
    IF node = NULL \/ fuel = 0 \/ node \notin DOMAIN list.nodes THEN <<>>
    ELSE <<node>> \o Walk(list, list.nodes[node][field], field, fuel - 1)

Forward(list) == Walk(list, list.head, "next", Cardinality(DOMAIN list.nodes) + 1)

Backward(list) == Walk(list, list.tail, "prev", Cardinality(DOMAIN list.nodes) + 1)

WellFormed(list) ==
    /\ (list.head = NULL) = (list.tail = NULL)
    /\ list.head # NULL =>
           list.head \in DOMAIN list.nodes /\ list.nodes[list.head].prev = NULL
    /\ list.tail # NULL =>
           list.tail \in DOMAIN list.nodes /\ list.nodes[list.tail].next = NULL
    /\ \A n \in DOMAIN list.nodes :
           LET m == list.nodes[n].next
           IN  m # NULL => (m \in DOMAIN list.nodes /\ list.nodes[m].prev = n)
    /\ Len(Forward(list)) <= Cardinality(DOMAIN list.nodes)
    /\ Backward(list) = Reverse(Forward(list))

\* C31: after any sequence of insert_head, insert_tail, pop and dequeue on a
\* list and of insert and remove on a keyed list, each list is well formed:
\* head is absent iff tail is, head has no prev and tail no next, the prev of
\* every node's successor is that node, and the walk back from tail meets the
\* nodes of the walk from head in reverse order.
C31_WellFormed == WellFormed(dlist) /\ WellFormed(dll_ht.list)

\* the keyed list has lost the middle one of its three nodes, by a remove that
\* returned, and the plain list holds a node
C31_Witness ==
    /\ ~aborted
    /\ Forward(dll_ht.list) = <<1, 3>> /\ Backward(dll_ht.list) = <<3, 1>>
    /\ Len(abs) = 3 /\ ~abs[2].live
    /\ Len(Forward(dlist)) = 1

(***************************************************************************)
(* C32                                                                     *)
(***************************************************************************)
\* the entries of table t that hold a key
KeyedEntries(t) == {e \in DOMAIN t.nodes : t.nodes[e].key # NullKey}

\* C32: after any sequence of keyed-list insert and remove calls (remove on
\* indexed keys only) that returned, the index maps each indexed key to a node
\* linked in the list, two indexed keys to two nodes, holds no entry for a key
\* that is not indexed, every linked node is the value of exactly one index
\* entry, and the index's entry count is the length of the list.
C32_IndexMatchesList ==
    (~aborted /\ dll_ht # Dead) =>
        LET list == dll_ht.list
            t == dll_ht.ht
            linked == Range(ListNodes(list))
        IN  /\ \A k \in RagKeys : Indexed(abs, k) =>
                   /\ ~ht_search(t, k).fault
                   /\ ht_search(t, k).ret \in linked
            /\ \A k1 \in RagKeys, k2 \in RagKeys :
                   (Indexed(abs, k1) /\ Indexed(abs, k2) /\ LKey(k1) # LKey(k2)) =>
                       ht_search(t, k1).ret # ht_search(t, k2).ret
            /\ \A k \in RagKeys : ~Indexed(abs, k) =>
                   \A e \in KeyedEntries(t) : compare(t.nodes[e].key, k) # 0
            /\ \A n \in linked :
                   Cardinality({e \in KeyedEntries(t) : t.nodes[e].value = n}) = 1
            /\ KeyedEntries(t) \subseteq Linked(t)
            /\ t.n_values = Cardinality(KeyedEntries(t))
            /\ t.n_values = Len(ListNodes(list))
            /\ Len(ListNodes(list)) = Cardinality(linked)

\* two keys are indexed after a third was removed, and the removal left a
\* cleared entry in the index
C32_Witness ==
    /\ ~aborted /\ dll_ht # Dead
    /\ op.name = "remove"
    /\ Len(ListNodes(dll_ht.list)) = 2 /\ dll_ht.ht.n_values = 2
    /\ Cardinality(DOMAIN dll_ht.ht.nodes) = 3

(***************************************************************************)
(* C33                                                                     *)
(***************************************************************************)
\* C33: a convert_to_undirected that follows a convert_to_undirected with no
\* operation between them leaves the graph as it found it: every node's
\* prev, next and data, both order lists, both counters and the node table.
C33_ConvertTwice ==
    [][(op.name = "convert_to_undirected" /\ op'.name = "convert_to_undirected") =>
          rag' = rag]_vars

\* a second conversion in a row has run on a graph where two nodes point at
\* the same node, which holds a back-reference to one of them
C33_Witness ==
    /\ op.name = "convert_to_undirected" /\ op.had
    /\ \E n \in GraphNodes(rag), m \in GraphNodes(rag) :
           /\ n # m
           /\ rag.nodes[n].next # NULL
           /\ rag.nodes[n].next = rag.nodes[m].next
           /\ rag.nodes[rag.nodes[n].next]._prev \in {n, m}

(***************************************************************************)
(* C34                                                                     *)
(***************************************************************************)
\* C34: no insert, hard_insert, convert_to_undirected, increment or decrement
\* takes a node away or makes a set data or next field of a node unset, and a
\* hard_insert with an absent data (next) argument leaves the data (next)
\* field of the key's node as it was.
C34_FieldsStaySet ==
    [][/\ DOMAIN rag.nodes \subseteq DOMAIN rag'.nodes
       /\ \A n \in DOMAIN rag.nodes :
              /\ rag.nodes[n].data # NULL => rag'.nodes[n].data # NULL
              /\ rag.nodes[n].next # NULL => rag'.nodes[n].next # NULL
       /\ (op'.name = "hard_insert" /\ op'.had) =>
              LET n == NodeOf(rag, LKey(op'.key))
              IN  /\ op'.value = NULL => rag'.nodes[n].data = rag.nodes[n].data
                  /\ op'.next = NULL => rag'.nodes[n].next = rag.nodes[n].next]_vars

\* a hard_insert with absent data and another target has run on a node whose
\* data and next were set: the edge is retargeted, the data is the old one
C34_Witness ==
    /\ op.name = "hard_insert" /\ op.had
    /\ op.value = NULL /\ op.next # NULL
    /\ op.old.data # NULL /\ op.old.next # NULL /\ op.old.next # op.next
    /\ LET n == NodeOf(rag, LKey(op.key))
       IN  rag.nodes[n].data = op.old.data /\ rag.nodes[n].next = op.next

====
